---- MODULE Spec2Model ----
(***************************************************************************)
(* Model of the dataflow graph evaluator of Expression-eval:               *)
(* GraphEvaluator (evaluate / validate), the node registry and the node    *)
(* definitions registered by registerAllNodes.                             *)
(*                                                                         *)
(* evaluate() is an async function: the model runs it one microtask at a   *)
(* time.  The job queue is FIFO, every `await` costs one job, and the      *)
(* synchronous code between two awaits is one atomic step.                 *)
(***************************************************************************)
EXTENDS Integers, Sequences, FiniteSets, TLC

(***************************************************************************)
(* JavaScript values.  Every value is a record of the same shape:          *)
(*   k  kind: "undef", "num", "str", "bool", "arr"                         *)
(*   n,d a number as the fraction n/d in lowest terms (d >= 1); a boolean  *)
(*       keeps 1 or 0 in n                                                 *)
(*   s  the characters of a string                                         *)
(*   a  the elements of an array                                           *)
(***************************************************************************)
Undef == [k |-> "undef", n |-> 0, d |-> 1, s |-> "", a |-> <<>>]

RECURSIVE Gcd(_, _)
Gcd(x, y) == IF y = 0 THEN x ELSE Gcd(y, x % y)

Abs(x) == IF x < 0 THEN -x ELSE x

Frac(x, y) ==
    LET sx == IF y < 0 THEN -x ELSE x
        sy == Abs(y)
        g  == Gcd(Abs(sx), sy)
    IN  [k |-> "num", n |-> sx \div g, d |-> sy \div g, s |-> "", a |-> <<>>]

Num(x) == [k |-> "num", n |-> x, d |-> 1, s |-> "", a |-> <<>>]

Str(x) == [k |-> "str", n |-> 0, d |-> 1, s |-> x, a |-> <<>>]

Bool(b) == [k |-> "bool", n |-> IF b THEN 1 ELSE 0, d |-> 1, s |-> "", a |-> <<>>]

Arr(xs) == [k |-> "arr", n |-> 0, d |-> 1, s |-> "", a |-> xs]

NumArr(xs) == Arr([i \in 1..Len(xs) |-> Num(xs[i])])

BoolArr(xs) == Arr([i \in 1..Len(xs) |-> Bool(xs[i])])

IsArray(v) == v.k = "arr"

IsUndef(v) == v.k = "undef"

(***************************************************************************)
(* A JavaScript Map or Record: the sequence of its <<key, value>> entries  *)
(* in insertion order.  set() on a present key keeps the key's position.   *)
(***************************************************************************)
EmptyMap == <<>>

MapHas(m, key) == \E i \in 1..Len(m) : m[i][1] = key

MapIdx(m, key) == CHOOSE i \in 1..Len(m) : m[i][1] = key

MapGet(m, key, dflt) == IF MapHas(m, key) THEN m[MapIdx(m, key)][2] ELSE dflt

MapSet(m, key, val) ==
    IF MapHas(m, key)
    THEN [m EXCEPT ![MapIdx(m, key)] = <<key, val>>]
    ELSE Append(m, <<key, val>>)

MapKeys(m) == {m[i][1] : i \in 1..Len(m)}

(***************************************************************************)
(* String(n) and Number(s).  The decimal conversion is computed digit by   *)
(* digit; Number(s) is the table of the numeric strings the graphs of the  *)
(* model use, every other string is NaN.                                   *)
(***************************************************************************)
Digit(i) == <<"0", "1", "2", "3", "4", "5", "6", "7", "8", "9">>[i + 1]

RECURSIVE NatToStr(_)
NatToStr(i) == IF i < 10 THEN Digit(i) ELSE NatToStr(i \div 10) \o Digit(i % 10)

IntToStr(i) == IF i < 0 THEN "-" \o NatToStr(-i) ELSE NatToStr(i)

NumericStrings == {"0", "5", "10"}

StrToInt(s) == CASE s = "0" -> 0 [] s = "5" -> 5 [] s = "10" -> 10

\* ToNumeric: the ToNumber abstract operation; nan marks NaN.
NaN == [nan |-> TRUE, n |-> 0, d |-> 1]

Numeric(x, y) == [nan |-> FALSE, n |-> x, d |-> y]

RECURSIVE ToNumeric(_)
ToNumeric(v) ==
    CASE v.k = "num"   -> Numeric(v.n, v.d)
      [] v.k = "bool"  -> Numeric(v.n, 1)
      [] v.k = "undef" -> NaN
      [] v.k = "str"   -> IF v.s = "" THEN Numeric(0, 1)
                          ELSE IF v.s \in NumericStrings THEN Numeric(StrToInt(v.s), 1)
                          ELSE NaN
      [] v.k = "arr"   -> IF Len(v.a) = 0 THEN Numeric(0, 1)
                          ELSE IF Len(v.a) = 1 /\ v.a[1].k \in {"num", "str"} THEN ToNumeric(v.a[1])
                          ELSE IF Len(v.a) = 1 /\ v.a[1].k = "undef" THEN Numeric(0, 1)
                          ELSE NaN

\* `Number(val) || 0`: NaN and 0 both become 0.
NumberOrZero(v) ==
    LET x == ToNumeric(v) IN IF x.nan THEN Num(0) ELSE Frac(x.n, x.d)

\* String(value).  A fraction prints as numerator/denominator, which no case
\* key of the model spells; an array prints its elements joined by commas,
\* an undefined element as the empty string.
RECURSIVE ToStr(_)
RECURSIVE JoinFrom(_, _)
JoinFrom(xs, i) ==
    IF i > Len(xs) THEN ""
    ELSE (IF i > 1 THEN "," ELSE "")
         \o (IF xs[i].k = "undef" THEN "" ELSE ToStr(xs[i]))
         \o JoinFrom(xs, i + 1)

ToStr(v) ==
    CASE v.k = "str"   -> v.s
      [] v.k = "undef" -> "undefined"
      [] v.k = "bool"  -> IF v.n = 1 THEN "true" ELSE "false"
      [] v.k = "num"   -> IF v.d = 1 THEN IntToStr(v.n)
                          ELSE IntToStr(v.n) \o "/" \o IntToStr(v.d)
      [] v.k = "arr"   -> JoinFrom(v.a, 1)

Truthy(v) ==
    CASE v.k = "undef" -> FALSE
      [] v.k = "bool"  -> v.n = 1
      [] v.k = "num"   -> v.n # 0
      [] v.k = "str"   -> v.s # ""
      [] v.k = "arr"   -> TRUE

AddNum(x, y) == Frac(x.n * y.d + y.n * x.d, x.d * y.d)

SubNum(x, y) == Frac(x.n * y.d - y.n * x.d, x.d * y.d)

MulNum(x, y) == Frac(x.n * y.n, x.d * y.d)

\* x / y for y # 0
DivNum(x, y) == Frac(x.n * y.d, x.d * y.n)

(***************************************************************************)
(* Type system                                                             *)
(***************************************************************************)
getValueType(v) ==
    CASE v.k = "undef" -> "any"
      [] v.k = "arr"   -> "array"
      [] v.k = "num"   -> "number"
      [] v.k = "str"   -> "string"
      [] v.k = "bool"  -> "boolean"

\* expectedType.split(' | ') for the type strings of DataType
TypeMembers(t) ==
    CASE t = "number | string"  -> <<"number", "string">>
      [] t = "string | number"  -> <<"string", "number">>
      [] t = "number | boolean" -> <<"number", "boolean">>
      [] t = "boolean | number" -> <<"boolean", "number">>
      [] OTHER -> <<t>>

IsUnionType(t) == Len(TypeMembers(t)) > 1

isTypeCompatible(v, expectedType) ==
    IF expectedType = "any" THEN TRUE
    ELSE IF IsUnionType(expectedType)
         THEN \E i \in 1..Len(TypeMembers(expectedType)) :
                 \/ getValueType(v) = TypeMembers(expectedType)[i]
                 \/ TypeMembers(expectedType)[i] = "any"
         ELSE getValueType(v) = expectedType

(***************************************************************************)
(* Node definitions.  An execute is an operator from the node's value map  *)
(* and its data to [err, writes]: err is the message of the Error thrown   *)
(* ("" when none), writes the setOutputValue calls made, in order.  No     *)
(* execute of the registered nodes writes a port before it throws.         *)
(*                                                                         *)
(* A node's data is [keys, value, outputs, operator, cases]; keys holds    *)
(* the names of the fields the data object has.                            *)
(***************************************************************************)
Ok(writes) == [err |-> "", writes |-> writes]

Throw(msg) == [err |-> msg, writes |-> <<>>]

InKey(port) == "input." \o port

\* context.getInputValue(port)
getInputValue(m, port) == MapGet(m, InKey(port), Undef)

\* the `while (true)` loop reading in0, in1, ... up to the first undefined
RECURSIVE CollectInputs(_, _)
CollectInputs(m, index) ==
    LET value == getInputValue(m, "in" \o NatToStr(index))
    IN  IF IsUndef(value) THEN <<>>
        ELSE <<value>> \o CollectInputs(m, index + 1)

AsArray(v) == IF IsArray(v) THEN v.a ELSE <<v>>

\* arr[i], undefined past the end, i counted from 0
ElemAt_noReuse(arr, i) == IF i < Len(arr) THEN arr[i + 1] ELSE Undef

\* i < arr.length ? arr[i] : arr[arr.length - 1], i counted from 0
ElemAt(arr, i) ==
    IF i < Len(arr) THEN arr[i + 1]
    ELSE IF Len(arr) = 0 THEN Undef ELSE arr[Len(arr)]

RECURSIVE MaxLen(_)
MaxLen(arrays) ==
    IF Len(arrays) = 0 THEN 0
    ELSE LET rest == MaxLen(Tail(arrays))
         IN  IF Len(Head(arrays)) > rest THEN Len(Head(arrays)) ELSE rest

HasArray(inputs) == \E i \in 1..Len(inputs) : IsArray(inputs[i])

Arrays(inputs) == [j \in 1..Len(inputs) |-> AsArray(inputs[j])]

\* the scalars folded at index i (counted from 0) of the aligned arrays
Column(inputs, i) == [j \in 1..Len(inputs) |-> ElemAt(Arrays(inputs)[j], i)]

RECURSIVE SumSeq(_)
SumSeq(xs) ==
    IF Len(xs) = 0 THEN Num(0)
    ELSE AddNum(SumSeq(SubSeq(xs, 1, Len(xs) - 1)), NumberOrZero(xs[Len(xs)]))

RECURSIVE ProductSeq(_)
ProductSeq(xs) ==
    IF Len(xs) = 0 THEN Num(1)
    ELSE MulNum(ProductSeq(SubSeq(xs, 1, Len(xs) - 1)), NumberOrZero(xs[Len(xs)]))

\* xs[1] - xs[2] - ... for a non-empty xs
RECURSIVE DiffSeq(_)
DiffSeq(xs) ==
    IF Len(xs) = 1 THEN NumberOrZero(xs[1])
    ELSE SubNum(DiffSeq(SubSeq(xs, 1, Len(xs) - 1)), NumberOrZero(xs[Len(xs)]))

\* xs[1] / xs[2] / ... for a non-empty xs without a zero divisor
RECURSIVE QuotSeq(_)
QuotSeq(xs) ==
    IF Len(xs) = 1 THEN NumberOrZero(xs[1])
    ELSE DivNum(QuotSeq(SubSeq(xs, 1, Len(xs) - 1)), NumberOrZero(xs[Len(xs)]))

ZeroDivisor(xs) == \E j \in 2..Len(xs) : NumberOrZero(xs[j]).n = 0

AddExecute(m) ==
    LET inputs == CollectInputs(m, 0)
    IN  IF HasArray(inputs)
        THEN Ok(<< <<"out", Arr([i \in 1..MaxLen(Arrays(inputs)) |->
                                    SumSeq(Column(inputs, i - 1))])>> >>)
        ELSE Ok(<< <<"out", SumSeq(inputs)>> >>)

SubtractExecute(m) ==
    LET inputs == CollectInputs(m, 0)
    IN  IF Len(inputs) = 0 THEN Ok(<< <<"out", Num(0)>> >>)
        ELSE IF HasArray(inputs)
        THEN Ok(<< <<"out", Arr([i \in 1..MaxLen(Arrays(inputs)) |->
                                    DiffSeq(Column(inputs, i - 1))])>> >>)
        ELSE Ok(<< <<"out", DiffSeq(inputs)>> >>)

MultiplyExecute(m) ==
    LET inputs == CollectInputs(m, 0)
    IN  IF Len(inputs) = 0 THEN Ok(<< <<"out", Num(0)>> >>)
        ELSE IF HasArray(inputs)
        THEN Ok(<< <<"out", Arr([i \in 1..MaxLen(Arrays(inputs)) |->
                                    ProductSeq(Column(inputs, i - 1))])>> >>)
        ELSE Ok(<< <<"out", ProductSeq(inputs)>> >>)

DivisionByZero == "Division by zero in Divide node"

DivideExecute(m) ==
    LET inputs == CollectInputs(m, 0)
    IN  IF Len(inputs) = 0 THEN Ok(<< <<"out", Num(0)>> >>)
        ELSE IF HasArray(inputs)
        THEN IF \E i \in 1..MaxLen(Arrays(inputs)) : ZeroDivisor(Column(inputs, i - 1))
             THEN Throw(DivisionByZero)
             ELSE Ok(<< <<"out", Arr([i \in 1..MaxLen(Arrays(inputs)) |->
                                         QuotSeq(Column(inputs, i - 1))])>> >>)
        ELSE IF ZeroDivisor(inputs) THEN Throw(DivisionByZero)
             ELSE Ok(<< <<"out", QuotSeq(inputs)>> >>)

\* If reading past the end of an input array as the math nodes do
IfExecute_lastReused(m) ==
    LET condition  == getInputValue(m, "condition")
        trueValue  == getInputValue(m, "true")
        falseValue == getInputValue(m, "false")
        pick(want, arr) ==
            LET es == SelectSeq([i \in 1..Len(condition.a) |->
                                   [keep |-> Truthy(condition.a[i]) = want,
                                    v    |-> ElemAt(arr, i - 1)]],
                                LAMBDA e : e.keep)
            IN  Arr([i \in 1..Len(es) |-> es[i].v])
    IN  IF IsArray(condition)
        THEN Ok(<< <<"trueOut", pick(TRUE, AsArray(trueValue))>>,
                   <<"falseOut", pick(FALSE, AsArray(falseValue))>>,
                   <<"out", pick(TRUE, AsArray(trueValue))>> >>)
        ELSE IF Truthy(condition)
             THEN Ok(<< <<"out", trueValue>> >>)
             ELSE Ok(<< <<"out", falseValue>> >>)

IfExecute(m) ==
    LET condition  == getInputValue(m, "condition")
        trueValue  == getInputValue(m, "true")
        falseValue == getInputValue(m, "false")
        trueArray  == AsArray(trueValue)
        falseArray == AsArray(falseValue)
        trueResults  == SelectSeq([i \in 1..Len(condition.a) |->
                                     [keep |-> Truthy(condition.a[i]) /\ i <= Len(trueArray),
                                      v    |-> ElemAt(trueArray, i - 1)]],
                                  LAMBDA e : e.keep)
        falseResults == SelectSeq([i \in 1..Len(condition.a) |->
                                     [keep |-> ~Truthy(condition.a[i]) /\ i <= Len(falseArray),
                                      v    |-> ElemAt(falseArray, i - 1)]],
                                  LAMBDA e : e.keep)
        vals(es) == [i \in 1..Len(es) |-> es[i].v]
    IN  IF IsArray(condition)
        THEN Ok(<< <<"trueOut", Arr(vals(trueResults))>>,
                   <<"falseOut", Arr(vals(falseResults))>>,
                   <<"out", Arr(vals(trueResults))>> >>)
        ELSE IF Truthy(condition)
             THEN Ok(<< <<"out", trueValue>> >>)
             ELSE Ok(<< <<"out", falseValue>> >>)

\* Code-unit order of the strings the graphs of the model compare.
StringOrder == <<"", "0", "10", "5", "abc", "option1", "option2", "option3">>

StrPos(x) == CHOOSE i \in 1..Len(StringOrder) : StringOrder[i] = x

StrictEq(x, y) ==
    /\ x.k = y.k
    /\ x.k # "arr"
    /\ x.n = y.n /\ x.d = y.d /\ x.s = y.s

NumericEq(x, y) ==
    LET p == ToNumeric(x)
        q == ToNumeric(y)
    IN  ~p.nan /\ ~q.nan /\ p.n * q.d = q.n * p.d

LooseEq(x, y) ==
    IF x.k = y.k THEN StrictEq(x, y)
    ELSE IF x.k = "undef" \/ y.k = "undef" THEN FALSE
    ELSE NumericEq(x, y)

\* x < y
LessThan(x, y) ==
    IF x.k = "str" /\ y.k = "str" THEN StrPos(x.s) < StrPos(y.s)
    ELSE LET p == ToNumeric(x)
             q == ToNumeric(y)
         IN  ~p.nan /\ ~q.nan /\ p.n * q.d < q.n * p.d

\* x <= y
LessEq(x, y) ==
    IF x.k = "str" /\ y.k = "str" THEN StrPos(x.s) <= StrPos(y.s)
    ELSE LET p == ToNumeric(x)
             q == ToNumeric(y)
         IN  ~p.nan /\ ~q.nan /\ p.n * q.d <= q.n * p.d

Operators == {"==", "===", "!=", "!==", ">", ">=", "<", "<="}

\* the closure `compare` of CompareNode.execute, for a known operator
compare(operator, val1, val2) ==
    CASE operator = "=="  -> LooseEq(val1, val2)
      [] operator = "===" -> StrictEq(val1, val2)
      [] operator = "!="  -> ~LooseEq(val1, val2)
      [] operator = "!==" -> ~StrictEq(val1, val2)
      [] operator = ">"   -> LessThan(val2, val1)
      [] operator = ">="  -> LessEq(val2, val1)
      [] operator = "<"   -> LessThan(val1, val2)
      [] operator = "<="  -> LessEq(val1, val2)

UnknownOperator(operator) == "Unknown operator: " \o operator

CompareExecute(m, data) ==
    LET a == getInputValue(m, "a")
        b == getInputValue(m, "b")
        operator == IF "operator" \in data.keys /\ data.operator # ""
                    THEN data.operator ELSE "=="
        aArray == AsArray(a)
        bArray == AsArray(b)
        maxLength == IF Len(aArray) > Len(bArray) THEN Len(aArray) ELSE Len(bArray)
    IN  IF IsArray(a) \/ IsArray(b)
        THEN IF maxLength > 0 /\ operator \notin Operators
             THEN Throw(UnknownOperator(operator))
             ELSE Ok(<< <<"out", Arr([i \in 1..maxLength |->
                                        Bool(compare(operator, ElemAt(aArray, i - 1),
                                                     ElemAt(bArray, i - 1)))])>> >>)
        ELSE IF operator \notin Operators
             THEN Throw(UnknownOperator(operator))
             ELSE Ok(<< <<"out", Bool(compare(operator, a, b))>> >>)

\* the first case, in the order of the cases object, whose key equals
\* String(value); 0 when none does
RECURSIVE FirstMatch(_, _, _)
FirstMatch(cases, str, i) ==
    IF i > Len(cases) THEN 0
    ELSE IF cases[i][1] = str THEN i
    ELSE FirstMatch(cases, str, i + 1)

\* Switch without the `matched` flag: default is written after a match too
SwitchExecute_defaultAlways(m, data) ==
    LET value == getInputValue(m, "value")
        cases == IF "cases" \in data.keys THEN data.cases ELSE <<>>
        hit   == FirstMatch(cases, ToStr(value), 1)
    IN  IF hit > 0 THEN Ok(<< <<cases[hit][2], value>>, <<"default", value>> >>)
        ELSE Ok(<< <<"default", value>> >>)

SwitchExecute(m, data) ==
    LET value == getInputValue(m, "value")
        cases == IF "cases" \in data.keys THEN data.cases ELSE <<>>
        hit   == FirstMatch(cases, ToStr(value), 1)
    IN  IF hit > 0 THEN Ok(<< <<cases[hit][2], value>> >>)
        ELSE Ok(<< <<"default", value>> >>)

ValueExecute(data) ==
    Ok(<< <<"out", IF "value" \in data.keys THEN data.value ELSE Undef>> >>)

OutputExecute(m, data) ==
    LET outputNames == IF "outputs" \in data.keys THEN data.outputs ELSE <<"output">>
        present == SelectSeq(outputNames, LAMBDA name : ~IsUndef(getInputValue(m, name)))
    IN  Ok([i \in 1..Len(present) |-> <<present[i], getInputValue(m, present[i])>>])

\* definition.execute(context) of the definition registered under type
Execute(type, m, data) ==
    CASE type = "Add"      -> AddExecute(m)
      [] type = "Subtract" -> SubtractExecute(m)
      [] type = "Multiply" -> MultiplyExecute(m)
      [] type = "Divide"   -> DivideExecute(m)
      [] type = "If"       -> IfExecute(m)
      [] type = "Compare"  -> CompareExecute(m, data)
      [] type = "Switch"   -> SwitchExecute(m, data)
      [] type = "Value"    -> ValueExecute(data)
      [] type = "Output"   -> OutputExecute(m, data)

(***************************************************************************)
(* The registry after registerAllNodes: the declared input and output      *)
(* ports of each type.  The three date nodes are registered too; no graph  *)
(* of the model has a date node, and they are left out.  The execute of    *)
(* Map, Filter and Reduce is asynchronous and is not dispatched by Execute.*)
(***************************************************************************)
Port(name, type) == [name |-> name, type |-> type]

Definition(category, inputs, outputs) ==
    [category |-> category, inputs |-> inputs, outputs |-> outputs]

MathDefinition == Definition("math", <<>>, <<Port("out", "number")>>)

Registry ==
    [type \in {"Add", "Subtract", "Multiply", "Divide", "If", "Compare", "Switch",
               "Value", "Output", "Map", "Filter", "Reduce"} |->
        CASE type \in {"Add", "Subtract", "Multiply", "Divide"} -> MathDefinition
          [] type = "If" ->
                Definition("control",
                           <<Port("condition", "boolean"), Port("true", "any"),
                             Port("false", "any")>>,
                           <<Port("out", "any"), Port("trueOut", "any"),
                             Port("falseOut", "any")>>)
          [] type = "Compare" ->
                Definition("control",
                           <<Port("a", "number | string"), Port("b", "number | string")>>,
                           <<Port("out", "boolean")>>)
          [] type = "Switch" ->
                Definition("control", <<Port("value", "any")>>, <<Port("default", "any")>>)
          [] type = "Value" ->
                Definition("special", <<>>, <<Port("out", "any")>>)
          [] type = "Output" ->
                Definition("special", <<>>, <<>>)
          [] type \in {"Map", "Filter"} ->
                Definition("array", <<Port("array", "array")>>, <<Port("out", "array")>>)
          [] type = "Reduce" ->
                Definition("array", <<Port("array", "array"), Port("initial", "any")>>,
                           <<Port("out", "any")>>)]

\* registry.get(type) is defined
Registered(type) == type \in DOMAIN Registry

\* ports.find(p => p.name === name): the declared type, "" when no port has the name
PortType(ports, name) ==
    IF \E i \in 1..Len(ports) : ports[i].name = name
    THEN ports[CHOOSE i \in 1..Len(ports) :
                 /\ ports[i].name = name
                 /\ \A j \in 1..(i - 1) : ports[j].name # name].type
    ELSE ""

(***************************************************************************)
(* Graphs                                                                  *)
(***************************************************************************)
NoData == [keys |-> {}, value |-> Undef, outputs |-> <<>>, operator |-> "", cases |-> <<>>,
           subgraph |-> [nodes |-> <<>>, edges |-> <<>>]]

ValueData(v) == [NoData EXCEPT !.keys = {"value"}, !.value = v]

OutputsData(names) == [NoData EXCEPT !.keys = {"outputs"}, !.outputs = names]

OperatorData(op) == [NoData EXCEPT !.keys = {"operator"}, !.operator = op]

CasesData(cases) == [NoData EXCEPT !.keys = {"cases"}, !.cases = cases]

SubgraphData(subgraph) == [NoData EXCEPT !.keys = {"subgraph"}, !.subgraph = subgraph]

GraphNode(id, type, data) == [id |-> id, type |-> type, data |-> data]

GraphEdge(fromNode, fromPort, toNode, toPort) ==
    [from |-> [node |-> fromNode, port |-> fromPort],
     to   |-> [node |-> toNode, port |-> toPort]]

(***************************************************************************)
(* The subgraphs given to Map, Filter and Reduce nodes, and what a run of  *)
(* each computes for one element.                                          *)
(***************************************************************************)
\* element -> Multiply by 2 -> Output
DOUBLE_SUBGRAPH ==
    [nodes |-> <<GraphNode("element", "Input", NoData),
                 GraphNode("two", "Value", ValueData(Num(2))),
                 GraphNode("multiply", "Multiply", NoData),
                 GraphNode("output", "Output", OutputsData(<<"result">>))>>,
     edges |-> <<GraphEdge("element", "out", "multiply", "in0"),
                 GraphEdge("two", "out", "multiply", "in1"),
                 GraphEdge("multiply", "out", "output", "result")>>]

\* 12 / element -> Output
DIVIDE_SUBGRAPH ==
    [nodes |-> <<GraphNode("twelve", "Value", ValueData(Num(12))),
                 GraphNode("input", "Anything", NoData),
                 GraphNode("divide", "Divide", NoData),
                 GraphNode("output", "Output", NoData)>>,
     edges |-> <<GraphEdge("twelve", "out", "divide", "in0"),
                 GraphEdge("input", "out", "divide", "in1"),
                 GraphEdge("divide", "out", "output", "output")>>]

\* element + 10, without an Output node
PLAIN_SUBGRAPH ==
    [nodes |-> <<GraphNode("element", "Input", NoData),
                 GraphNode("ten", "Value", ValueData(Num(10))),
                 GraphNode("add", "Add", NoData)>>,
     edges |-> <<GraphEdge("element", "out", "add", "in0"),
                 GraphEdge("ten", "out", "add", "in1")>>]

\* element > 1 -> Output
GREATER_SUBGRAPH ==
    [nodes |-> <<GraphNode("element", "Input", NoData),
                 GraphNode("threshold", "Value", ValueData(Num(1))),
                 GraphNode("compare", "Compare", OperatorData(">")),
                 GraphNode("output", "Output", OutputsData(<<"result">>))>>,
     edges |-> <<GraphEdge("element", "out", "compare", "a"),
                 GraphEdge("threshold", "out", "compare", "b"),
                 GraphEdge("compare", "out", "output", "result")>>]

\* element -> Output
SELF_SUBGRAPH ==
    [nodes |-> <<GraphNode("element", "Input", NoData),
                 GraphNode("output", "Output", OutputsData(<<"result">>))>>,
     edges |-> <<GraphEdge("element", "out", "output", "result")>>]

\* accumulator + element -> Output
SUM_SUBGRAPH ==
    [nodes |-> <<GraphNode("accumulator", "Input", NoData),
                 GraphNode("element", "Input", NoData),
                 GraphNode("add", "Add", NoData),
                 GraphNode("output", "Output", OutputsData(<<"result">>))>>,
     edges |-> <<GraphEdge("accumulator", "out", "add", "in0"),
                 GraphEdge("element", "out", "add", "in1"),
                 GraphEdge("add", "out", "output", "result")>>]

\* acc / current -> Output
QUOTIENT_SUBGRAPH ==
    [nodes |-> <<GraphNode("acc", "Anything", NoData),
                 GraphNode("current", "Anything", NoData),
                 GraphNode("divide", "Divide", NoData),
                 GraphNode("output", "Output", NoData)>>,
     edges |-> <<GraphEdge("acc", "out", "divide", "in0"),
                 GraphEdge("current", "out", "divide", "in1"),
                 GraphEdge("divide", "out", "output", "output")>>]

\* what the subgraph computes for one element: twice the element, 12 divided
\* by it, and for the subgraph without an Output node the last entry of the
\* outputs, which is the constant staged last at add.in1
Transformed(subgraph, element) ==
    CASE subgraph = DOUBLE_SUBGRAPH -> Num(2 * element.n)
      [] subgraph = DIVIDE_SUBGRAPH -> Frac(12, element.n)
      [] subgraph = PLAIN_SUBGRAPH  -> Num(10)

\* what the Filter subgraphs extract for one element: whether it exceeds 1,
\* the element itself, and 12 divided by it
Verdict(subgraph, element) ==
    CASE subgraph = GREATER_SUBGRAPH -> Bool(element.n > 1)
      [] subgraph = SELF_SUBGRAPH    -> element
      [] subgraph = DIVIDE_SUBGRAPH  -> Frac(12, element.n)

\* the elements of xs whose extracted value is truthy, in the order of xs
Chosen(subgraph, xs) == SelectSeq(xs, LAMBDA x : Truthy(Verdict(subgraph, x)))

\* what the Reduce subgraphs compute in one step: the sum and the quotient
\* of the accumulator and the element
Step(subgraph, acc, element) ==
    CASE subgraph = SUM_SUBGRAPH -> Frac(acc.n * element.d + element.n * acc.d, acc.d * element.d)
      [] subgraph = QUOTIENT_SUBGRAPH -> Frac(acc.n * element.d, acc.d * element.n)

\* the left fold of Step over xs[i], xs[i + 1], ... from acc
RECURSIVE Folded(_, _, _, _)
Folded(subgraph, acc, xs, i) ==
    IF i > Len(xs) THEN acc ELSE Folded(subgraph, Step(subgraph, acc, xs[i]), xs, i + 1)

\* result.error of the run of a subgraph on an element, "" when it succeeds:
\* the two dividing subgraphs fail on the element 0
Failure(subgraph, element) ==
    IF subgraph \in {DIVIDE_SUBGRAPH, QUOTIENT_SUBGRAPH} /\ element.n = 0
    THEN DivisionByZero ELSE ""

\* the first position of xs, from i on, whose run fails; 0 when none does
FirstFailure(subgraph, xs, i) ==
    LET failing == {j \in i..Len(xs) : Failure(subgraph, xs[j]) # ""}
    IN  IF failing = {} THEN 0 ELSE CHOOSE j \in failing : \A k \in failing : j <= k

(***************************************************************************)
(* What a whole call of MapNode.execute, FilterNode.execute and            *)
(* ReduceNode.execute does, given the value map m of the node and its      *)
(* data: the values it sets, or the Error it throws.  The runs of the      *)
(* subgraph are replaced by what they compute (Transformed, Verdict, Step, *)
(* Failure); the actions MapExecute, FilterExecute, ReduceExecute and      *)
(* their continuations make the same calls run by run.                     *)
(***************************************************************************)
AsyncTypes == {"Map", "Filter", "Reduce"}

MapOutcome(m, data) ==
    LET inputArray == getInputValue(m, "array")
        failed     == FirstFailure(data.subgraph, inputArray.a, 1)
    IN  IF ~IsArray(inputArray) THEN Throw("Map node requires an array input")
        ELSE IF "subgraph" \notin data.keys THEN Ok(<< <<"out", inputArray>> >>)
        ELSE IF failed > 0
        THEN Throw("Map subgraph evaluation failed: "
                       \o Failure(data.subgraph, inputArray.a[failed]))
        ELSE Ok(<< <<"out", Arr([i \in 1..Len(inputArray.a) |->
                                    Transformed(data.subgraph, inputArray.a[i])])>> >>)

FilterOutcome(m, data) ==
    LET inputArray == getInputValue(m, "array")
        failed     == FirstFailure(data.subgraph, inputArray.a, 1)
    IN  IF ~IsArray(inputArray) THEN Throw("Filter node requires an array input")
        ELSE IF "subgraph" \notin data.keys THEN Ok(<< <<"out", inputArray>> >>)
        ELSE IF failed > 0
        THEN Throw("Filter subgraph evaluation failed: "
                       \o Failure(data.subgraph, inputArray.a[failed]))
        ELSE Ok(<< <<"out", Arr(Chosen(data.subgraph, inputArray.a))>> >>)

ReduceOutcome(m, data) ==
    LET inputArray   == getInputValue(m, "array")
        initialValue == getInputValue(m, "initial")
        accumulator  == IF initialValue # Undef THEN initialValue
                        ELSE IF Len(inputArray.a) > 0 THEN inputArray.a[1] ELSE Undef
        start        == IF initialValue # Undef THEN 1 ELSE 2
        failed       == FirstFailure(data.subgraph, inputArray.a, start)
    IN  IF ~IsArray(inputArray) THEN Throw("Reduce node requires an array input")
        ELSE IF "subgraph" \notin data.keys THEN Ok(<< <<"out", initialValue>> >>)
        ELSE IF failed > 0
        THEN Throw("Reduce subgraph evaluation failed: "
                       \o Failure(data.subgraph, inputArray.a[failed]))
        ELSE Ok(<< <<"out", Folded(data.subgraph, accumulator, inputArray.a, start)>> >>)

\* definition.execute(context) of an array node, from call to settlement
ExecuteOutcome(type, m, data) ==
    CASE type = "Map"    -> MapOutcome(m, data)
      [] type = "Filter" -> FilterOutcome(m, data)
      [] type = "Reduce" -> ReduceOutcome(m, data)

\* the call runs the subgraph at least once
Awaits(type, m, data) ==
    /\ IsArray(getInputValue(m, "array"))
    /\ "subgraph" \in data.keys
    /\ Len(getInputValue(m, "array").a) >
           IF type = "Reduce" /\ getInputValue(m, "initial") = Undef THEN 1 ELSE 0

SAMPLE_GRAPH ==
    [nodes |-> <<GraphNode("value1", "Value", ValueData(Num(10))),
                 GraphNode("value2", "Value", ValueData(Num(5))),
                 GraphNode("add", "Add", NoData),
                 GraphNode("output", "Output", OutputsData(<<"result">>))>>,
     edges |-> <<GraphEdge("value1", "out", "add", "in0"),
                 GraphEdge("value2", "out", "add", "in1"),
                 GraphEdge("add", "out", "output", "result")>>]

ARRAY_OPERATIONS_GRAPH ==
    [nodes |-> <<GraphNode("array1", "Value", ValueData(NumArr(<<1, 2, 3, 4, 5>>))),
                 GraphNode("array2", "Value", ValueData(NumArr(<<10, 20, 30, 40, 50>>))),
                 GraphNode("scalar", "Value", ValueData(Num(5))),
                 GraphNode("add_arrays", "Add", NoData),
                 GraphNode("multiply_scalar", "Multiply", NoData),
                 GraphNode("threshold", "Value", ValueData(Num(150))),
                 GraphNode("compare_threshold", "Compare", OperatorData(">")),
                 GraphNode("filter_if", "If", NoData),
                 GraphNode("switch_test_value", "Value", ValueData(Str("option2"))),
                 GraphNode("switch_node", "Switch",
                           CasesData(<< <<"option1", "case1">>, <<"option2", "case2">>,
                                        <<"option3", "case3">> >>)),
                 GraphNode("output", "Output",
                           OutputsData(<<"added", "multiplied", "comparison",
                                         "filtered_true", "filtered_false", "switch_out">>))>>,
     edges |-> <<GraphEdge("array1", "out", "add_arrays", "in0"),
                 GraphEdge("array2", "out", "add_arrays", "in1"),
                 GraphEdge("add_arrays", "out", "output", "added"),
                 GraphEdge("add_arrays", "out", "multiply_scalar", "in0"),
                 GraphEdge("scalar", "out", "multiply_scalar", "in1"),
                 GraphEdge("multiply_scalar", "out", "output", "multiplied"),
                 GraphEdge("multiply_scalar", "out", "compare_threshold", "a"),
                 GraphEdge("threshold", "out", "compare_threshold", "b"),
                 GraphEdge("compare_threshold", "out", "output", "comparison"),
                 GraphEdge("compare_threshold", "out", "filter_if", "condition"),
                 GraphEdge("multiply_scalar", "out", "filter_if", "true"),
                 GraphEdge("multiply_scalar", "out", "filter_if", "false"),
                 GraphEdge("filter_if", "trueOut", "output", "filtered_true"),
                 GraphEdge("filter_if", "falseOut", "output", "filtered_false"),
                 GraphEdge("switch_test_value", "out", "switch_node", "value"),
                 GraphEdge("switch_node", "case2", "output", "switch_out")>>]

\* A division by zero one edge away from the start nodes and a node of an
\* unregistered type two edges away.
TWO_ERRORS_GRAPH ==
    [nodes |-> <<GraphNode("ten", "Value", ValueData(Num(10))),
                 GraphNode("zero", "Value", ValueData(Num(0))),
                 GraphNode("divide", "Divide", NoData),
                 GraphNode("add", "Add", NoData),
                 GraphNode("mystery", "Mystery", NoData)>>,
     edges |-> <<GraphEdge("ten", "out", "divide", "in0"),
                 GraphEdge("zero", "out", "divide", "in1"),
                 GraphEdge("ten", "out", "add", "in0"),
                 GraphEdge("add", "out", "mystery", "in0")>>]

NamedGraphs == {SAMPLE_GRAPH, ARRAY_OPERATIONS_GRAPH, TWO_ERRORS_GRAPH}

(***************************************************************************)
(* Bounded families of graphs                                              *)
(***************************************************************************)
MaxFanIn == 3

MaxEdges == 3

Reverse(xs) == [i \in 1..Len(xs) |-> xs[Len(xs) + 1 - i]]

\* the elements of a set of integers in increasing order
RECURSIVE Sorted(_)
Sorted(set) ==
    IF set = {} THEN <<>>
    ELSE LET least == CHOOSE x \in set : \A y \in set : x <= y
         IN  <<least>> \o Sorted(set \ {least})

\* k start Value nodes into in0..in(k-1) of one Add node, Add.out into an
\* Output node; rev lists the nodes (and so dispatches the start nodes) in
\* the opposite order.
FanInGraph(vals, rev) ==
    LET values == [i \in 1..Len(vals) |->
                      GraphNode("value" \o NatToStr(i), "Value", ValueData(Num(vals[i])))]
        nodes  == values \o <<GraphNode("add", "Add", NoData),
                              GraphNode("output", "Output", OutputsData(<<"result">>))>>
    IN  [nodes |-> IF rev THEN Reverse(nodes) ELSE nodes,
         edges |-> [i \in 1..Len(vals) |->
                      GraphEdge("value" \o NatToStr(i), "out", "add", "in" \o NatToStr(i - 1))]
                   \o <<GraphEdge("add", "out", "output", "result")>>]

FanInGraphs ==
    {FanInGraph(vals, rev) :
        vals \in UNION {[1..k -> {10, 5}] : k \in 1..MaxFanIn}, rev \in BOOLEAN}

\* Two start values, a pass-through Add node `mid`, an operation node `op` of
\* type T and an Output node, joined by at most MaxEdges edges of a pool that
\* holds direct and indirect paths into op, two cycles, and an edge to and an
\* edge from a node the graph does not have.
PoolNodes(y, T) ==
    <<GraphNode("v1", "Value", ValueData(Num(10))),
      GraphNode("v2", "Value", ValueData(y)),
      GraphNode("mid", "Add", NoData),
      GraphNode("op", T, NoData),
      GraphNode("output", "Output", OutputsData(<<"result">>))>>

EdgePool ==
    <<GraphEdge("v1", "out", "op", "in0"),
      GraphEdge("v2", "out", "op", "in1"),
      GraphEdge("v2", "out", "mid", "in0"),
      GraphEdge("mid", "out", "op", "in1"),
      GraphEdge("op", "out", "output", "result"),
      GraphEdge("v1", "out", "output", "result"),
      GraphEdge("op", "out", "mid", "in0"),
      GraphEdge("op", "out", "op", "in1"),
      GraphEdge("v1", "out", "ghost", "in0"),
      GraphEdge("ghost", "out", "op", "in0")>>

PoolGraph(y, T, picked, rev) ==
    LET nodes == PoolNodes(y, T)
        edges == [i \in 1..Cardinality(picked) |-> EdgePool[Sorted(picked)[i]]]
    IN  [nodes |-> IF rev THEN Reverse(nodes) ELSE nodes,
         edges |-> IF rev THEN Reverse(edges) ELSE edges]

PoolGraphs ==
    {PoolGraph(y, T, picked, rev) :
        y \in {Num(0), Num(5), NumArr(<<1, 2>>)},
        T \in {"Add", "Divide", "Mystery"},
        picked \in {p \in SUBSET (1..Len(EdgePool)) : Cardinality(p) <= MaxEdges},
        rev \in BOOLEAN}

\* Values into the declared input ports of Compare and If.
TypedGraph(a, b) ==
    [nodes |-> <<GraphNode("a", "Value", ValueData(a)),
                 GraphNode("b", "Value", ValueData(b)),
                 GraphNode("compare", "Compare", OperatorData("<")),
                 GraphNode("if", "If", NoData),
                 GraphNode("output", "Output", OutputsData(<<"result">>))>>,
     edges |-> <<GraphEdge("a", "out", "compare", "a"),
                 GraphEdge("b", "out", "compare", "b"),
                 GraphEdge("compare", "out", "if", "condition"),
                 GraphEdge("a", "out", "if", "true"),
                 GraphEdge("if", "out", "output", "result")>>]

TypedValues == {Num(5), Num(10), Str("abc"), Bool(TRUE), NumArr(<<1, 2>>)}

TypedGraphs == {TypedGraph(a, b) : a \in TypedValues, b \in TypedValues}

EvalGraphs == NamedGraphs \cup FanInGraphs \cup PoolGraphs \cup TypedGraphs

\* Graphs on which validate() is called before, during or after a run of
\* evaluate(): the two small named graphs, the typed graphs, and pool graphs
\* of at most two edges (cycles, missing endpoints, an unregistered type and
\* an array value among them).
MaxFrameEdges == 2

FrameGraphs ==
    {SAMPLE_GRAPH, TWO_ERRORS_GRAPH} \cup TypedGraphs
        \cup {PoolGraph(Num(0), T, picked, FALSE) :
                 T \in {"Divide", "Mystery"},
                 picked \in {p \in SUBSET (1..Len(EdgePool)) : Cardinality(p) <= MaxFrameEdges}}
        \cup {PoolGraph(NumArr(<<1, 2>>), "Add", picked, FALSE) :
                 picked \in {p \in SUBSET (1..Len(EdgePool)) : Cardinality(p) <= MaxFrameEdges}}

MaxChain == 4

\* Value 10 into in0 and Value 0 into in1 of a node of type T, whose in1 also
\* gets Value 5 through a chain of n Add nodes.
ChainGraph(n, T) ==
    LET adds == [i \in 1..n |-> GraphNode("m" \o NatToStr(i), "Add", NoData)]
    IN  [nodes |-> <<GraphNode("ten", "Value", ValueData(Num(10))),
                     GraphNode("zero", "Value", ValueData(Num(0))),
                     GraphNode("five", "Value", ValueData(Num(5)))>>
                   \o adds
                   \o <<GraphNode("divide", T, NoData)>>,
         edges |-> <<GraphEdge("ten", "out", "divide", "in0"),
                     GraphEdge("zero", "out", "divide", "in1"),
                     GraphEdge("five", "out", "m1", "in0")>>
                   \o [i \in 1..(n - 1) |->
                          GraphEdge("m" \o NatToStr(i), "out", "m" \o NatToStr(i + 1), "in0")]
                   \o <<GraphEdge("m" \o NatToStr(n), "out", "divide", "in1")>>]

ChainGraphs == {ChainGraph(n, T) : n \in 1..MaxChain, T \in {"Divide", "Add", "Mystery"}}

\* Graphs on which evaluate() is called twice.
RerunGraphs ==
    NamedGraphs \cup FanInGraphs \cup ChainGraphs
        \cup {PoolGraph(y, "Divide", picked, rev) :
                 y \in {Num(0), Num(5)},
                 picked \in {p \in SUBSET (1..Len(EdgePool)) : Cardinality(p) <= MaxEdges},
                 rev \in BOOLEAN}

\* Every list of at most MaxValidateEdges distinct edges over three nodes and
\* one name that is no node; the second and the third node are each of a
\* registered or of an unregistered type.
MaxValidateEdges == 3

Endpoints == {"a", "b", "c", "ghost"}

EdgeLists ==
    UNION {{es \in [1..k -> Endpoints \X Endpoints] :
               \A i, j \in 1..k : i # j => es[i] # es[j]} : k \in 0..MaxValidateEdges}

ValidateGraph(Tb, Tc, es) ==
    [nodes |-> <<GraphNode("a", "Value", ValueData(Num(1))),
                 GraphNode("b", Tb, NoData),
                 GraphNode("c", Tc, NoData)>>,
     edges |-> [i \in 1..Len(es) |-> GraphEdge(es[i][1], "out", es[i][2], "in0")]]

ValidateTypes == {<<"Add", "Multiply">>, <<"Add", "Mystery">>, <<"Mystery", "Mystery">>}

ValidateGraphs == {ValidateGraph(T[1], T[2], es) : T \in ValidateTypes, es \in EdgeLists}

(***************************************************************************)
(* State of one GraphEvaluator and of its evaluate() call                  *)
(***************************************************************************)
VARIABLES
    graph,          \* this.graph
    nodeValues,     \* this.nodeValues: node id -> (port key -> value)
    inferredTypes,  \* this.inferredTypes: key -> InferredTypeInfo
    executedNodes,  \* this.executedNodes
    tasks,          \* the executeNode calls that reached an await
    jobs,           \* the microtask queue, first job first
    remaining,      \* Promise.all: start nodes not yet fulfilled; -1 once settled
    phase,          \* "none" (no evaluator yet), "executed" (a single execute was
                    \* called), "idle", "running" (evaluate awaits), "returned"; of a second
                    \* call "rerun" or "fresh" (awaits), then "returnedRerun" or
                    \* "returnedFresh"
    result,         \* what evaluate() returned
    previous,       \* history: what the call of evaluate() before this one returned
    definitions,    \* DefaultNodeRegistry.definitions of the registry under test
    mapNode,        \* the call of MapNode.execute whose subgraph the evaluator runs
    validation,     \* what validate() returned
    trace           \* history: the executions, stagings and throws so far

vars == <<graph, nodeValues, inferredTypes, executedNodes, tasks, jobs, remaining,
          phase, result, previous, definitions, mapNode, validation, trace>>

\* no call of MapNode.execute, FilterNode.execute or ReduceNode.execute
NoMap == [type |-> "", array |-> Undef, initial |-> Undef, hasSubgraph |-> FALSE,
          subgraph |-> [nodes |-> <<>>, edges |-> <<>>], index |-> 0, results |-> <<>>,
          accumulator |-> Undef, out |-> Undef, err |-> "", state |-> "none"]

\* graph.nodes.find(n => n.id === id): its index, 0 when there is none
FindNode(id) ==
    IF \E i \in 1..Len(graph.nodes) : graph.nodes[i].id = id
    THEN CHOOSE i \in 1..Len(graph.nodes) :
            /\ graph.nodes[i].id = id
            /\ \A j \in 1..(i - 1) : graph.nodes[j].id # id
    ELSE 0

NodeIds == {graph.nodes[i].id : i \in 1..Len(graph.nodes)}

\* findStartNodes without the filter: every node is dispatched as a start node
findStartNodes_all == [i \in 1..Len(graph.nodes) |-> i]

\* findStartNodes: the indices of the nodes no edge points to, in node order
findStartNodes ==
    LET nodesWithInputs == {graph.edges[e].to.node : e \in 1..Len(graph.edges)}
    IN  SelectSeq([i \in 1..Len(graph.nodes) |-> i],
                  LAMBDA i : graph.nodes[i].id \notin nodesWithInputs)

\* graph.edges.filter(edge => edge.from.node === id): edge indices in edge order
OutgoingEdges(id) ==
    SelectSeq([e \in 1..Len(graph.edges) |-> e],
              LAMBDA e : graph.edges[e].from.node = id)

(***************************************************************************)
(* The synchronous code of the evaluator works on a record S of the        *)
(* mutable state: nv (nodeValues), it (inferredTypes), ex (executedNodes), *)
(* tasks, jobs and trace.                                                  *)
(*                                                                         *)
(* A task is an executeNode call suspended at an await: node is the index  *)
(* of its node, parent the task whose propagateOutputs awaits it (0 for a  *)
(* call made by evaluate), pos the position in the outgoing edges of the   *)
(* edge whose target its propagateOutputs awaits.                          *)
(* A job is the continuation to run: kind "execDone" resumes executeNode   *)
(* after `await definition.execute`, "childDone" resumes propagateOutputs  *)
(* after `await this.executeNode`, "propDone" resumes executeNode after    *)
(* `await this.propagateOutputs`, "allElem" is the reaction of Promise.all *)
(* to one start node's promise, "evalResume" resumes evaluate.  err is the *)
(* message of the rejection the continuation receives, "" when fulfilled.  *)
(***************************************************************************)
MaxNestedRounds == 2

Job(kind, task, err) ==
    [kind |-> kind, task |-> task, err |-> err, wait |-> 0, writes |-> <<>>]

\* The continuation of `await definition.execute(context)` for an execute that
\* is an async function: writes are the values it sets before it returns, err
\* what it throws, wait how many more turns of the queue its nested runs
\* may take.
Settling(task, outcome, wait) ==
    [kind |-> "execDone", task |-> task, err |-> outcome.err, wait |-> wait,
     writes |-> outcome.writes]

\* An entry of the history variable trace.  ev is
\*   "exec"    execute of node was invoked, on the value map m; err is what it threw
\*   "lookup"  executeNode(node) found no definition for the node's type
\*   "skip"    executeNode(node) found the node in executedNodes
\*   "marked"  node was added to executedNodes
\*   "stage"   the value of edge was staged into node; m holds the key and the value
\*   "mismatchOut", "mismatchIn"  the type check of edge threw err
\* task is the task that made the call (0 for evaluate), or that was marked.

Event(ev, task, node, edge, m, err) ==
    [ev |-> ev, task |-> task, node |-> node, edge |-> edge, m |-> m, err |-> err]

NotFound(type) == "Node type '" \o type \o "' not found in registry"

OutputMismatch(id, port, expected, actual) ==
    "Type mismatch at node '" \o id \o "' output port '" \o port
        \o "': expected '" \o expected \o "' but got '" \o actual \o "'"

InputMismatch(sourceType, fromPort, actual, targetType, toPort, expected) ==
    "Type mismatch: cannot connect '" \o sourceType \o "." \o fromPort
        \o "' (" \o actual \o ") to '" \o targetType \o "." \o toPort
        \o "' (expected " \o expected \o ")"

NodeMap(nv, id) == MapGet(nv, id, EmptyMap)

\* inferTypeForPort; declaredType "" is undefined
inferTypeForPort(it, id, port, value, declaredType) ==
    MapSet(it, id \o "." \o port,
           [inferredType |-> getValueType(value),
            declaredType |-> declaredType,
            isCompatible |-> IF declaredType # "" THEN isTypeCompatible(value, declaredType)
                             ELSE TRUE])

\* context.setOutputValue(port, value) for each write of an execute
RECURSIVE ApplyWrites(_, _, _)
ApplyWrites(S, ni, writes) ==
    IF Len(writes) = 0 THEN S
    ELSE LET node  == graph.nodes[ni]
             port  == writes[1][1]
             value == writes[1][2]
         IN  ApplyWrites(
                 [S EXCEPT !.nv = MapSet(@, node.id, MapSet(NodeMap(@, node.id), port, value)),
                           !.it = inferTypeForPort(@, node.id, port, value,
                                      PortType(Registry[node.type].outputs, port))],
                 ni, Tail(writes))

\* createNodeContext: the node gets a value map if it has none
createNodeContext(S, ni) ==
    IF MapHas(S.nv, graph.nodes[ni].id) THEN S
    ELSE [S EXCEPT !.nv = MapSet(@, graph.nodes[ni].id, EmptyMap)]

(***************************************************************************)
(* executeNode(node) up to its first await, called by task `parent`.       *)
(* The call returns a promise: out says whether it is already "resolved"   *)
(* (the node was executed before), already "rejected" with err (registry   *)
(* miss, or execute threw) or "pending" (execute returned, the call is now *)
(* a task whose continuation is queued).                                   *)
\* executeNode adding the node to executedNodes before execute is awaited
executeNode_markedAtCall(S, ni, parent) ==
    LET node == graph.nodes[ni]
        C    == createNodeContext(S, ni)
        m    == NodeMap(C.nv, node.id)
        r    == Execute(node.type, m, node.data)
        t    == Len(S.tasks) + 1
    IN  IF node.id \in S.ex
        THEN [S |-> [S EXCEPT !.trace = Append(@, Event("skip", parent, node.id, 0, <<>>, ""))],
              out |-> "resolved", err |-> ""]
        ELSE IF ~Registered(node.type)
        THEN [S |-> [S EXCEPT !.trace = Append(@, Event("lookup", parent, node.id, 0, <<>>,
                                                        NotFound(node.type)))],
              out |-> "rejected", err |-> NotFound(node.type)]
        ELSE IF r.err # ""
        THEN [S |-> [C EXCEPT !.trace = Append(@, Event("exec", parent, node.id, 0, m, r.err))],
              out |-> "rejected", err |-> r.err]
        ELSE [S |-> [ApplyWrites(C, ni, r.writes) EXCEPT
                        !.ex    = @ \cup {node.id},
                        !.tasks = Append(@, [node |-> ni, parent |-> parent, pos |-> 0]),
                        !.jobs  = Append(@, Job("execDone", t, "")),
                        !.trace = Append(@, Event("exec", parent, node.id, 0, m, ""))],
              out |-> "pending", err |-> ""]

\* executeNode returning, not throwing, when the registry has no definition
executeNode_lookupResolves(S, ni, parent) ==
    LET node == graph.nodes[ni]
        C    == createNodeContext(S, ni)
        m    == NodeMap(C.nv, node.id)
        r    == Execute(node.type, m, node.data)
        t    == Len(S.tasks) + 1
    IN  IF node.id \in S.ex
        THEN [S |-> [S EXCEPT !.trace = Append(@, Event("skip", parent, node.id, 0, <<>>, ""))],
              out |-> "resolved", err |-> ""]
        ELSE IF ~Registered(node.type)
        THEN [S |-> [S EXCEPT !.trace = Append(@, Event("lookup", parent, node.id, 0, <<>>,
                                                        NotFound(node.type)))],
              out |-> "resolved", err |-> ""]
        ELSE IF r.err # ""
        THEN [S |-> [C EXCEPT !.trace = Append(@, Event("exec", parent, node.id, 0, m, r.err))],
              out |-> "rejected", err |-> r.err]
        ELSE [S |-> [ApplyWrites(C, ni, r.writes) EXCEPT
                        !.tasks = Append(@, [node |-> ni, parent |-> parent, pos |-> 0]),
                        !.jobs  = Append(@, Job("execDone", t, "")),
                        !.trace = Append(@, Event("exec", parent, node.id, 0, m, ""))],
              out |-> "pending", err |-> ""]

(***************************************************************************)
executeNode(S, ni, parent) ==
    LET node == graph.nodes[ni]
        C    == createNodeContext(S, ni)
        m    == NodeMap(C.nv, node.id)
        r    == Execute(node.type, m, node.data)
        t    == Len(S.tasks) + 1
    IN  IF node.id \in S.ex
        THEN [S |-> [S EXCEPT !.trace = Append(@, Event("skip", parent, node.id, 0, <<>>, ""))],
              out |-> "resolved", err |-> ""]
        ELSE IF ~Registered(node.type)
        THEN [S |-> [S EXCEPT !.trace = Append(@, Event("lookup", parent, node.id, 0, <<>>,
                                                        NotFound(node.type)))],
              out |-> "rejected", err |-> NotFound(node.type)]
        ELSE IF node.type \in AsyncTypes
        THEN [S |-> [C EXCEPT
                        !.tasks = Append(@, [node |-> ni, parent |-> parent, pos |-> 0]),
                        !.jobs  = Append(@, Settling(t, ExecuteOutcome(node.type, m, node.data),
                                                     IF Awaits(node.type, m, node.data)
                                                     THEN MaxNestedRounds ELSE 0)),
                        !.trace = Append(@, Event("exec", parent, node.id, 0, m, ""))],
              out |-> "pending", err |-> ""]
        ELSE IF r.err # ""
        THEN [S |-> [C EXCEPT !.trace = Append(@, Event("exec", parent, node.id, 0, m, r.err))],
              out |-> "rejected", err |-> r.err]
        ELSE [S |-> [ApplyWrites(C, ni, r.writes) EXCEPT
                        !.tasks = Append(@, [node |-> ni, parent |-> parent, pos |-> 0]),
                        !.jobs  = Append(@, Job("execDone", t, "")),
                        !.trace = Append(@, Event("exec", parent, node.id, 0, m, ""))],
              out |-> "pending", err |-> ""]

(***************************************************************************)
(* propagateOutputs(node) of task t, from position `from` of the outgoing  *)
(* edges, up to its next await, its return or its throw.                   *)
RECURSIVE propagateOutputs(_, _, _)

\* propagateOutputs going on to the next edge without awaiting executeNode
propagateOutputs_noAwait(S, t, from) ==
    LET node     == graph.nodes[S.tasks[t].node]
        outgoing == OutgoingEdges(node.id)
        e        == outgoing[from]
        edge     == graph.edges[e]
        value    == MapGet(NodeMap(S.nv, edge.from.node), edge.from.port, Undef)
        outType  == PortType(Registry[node.type].outputs, edge.from.port)
        ti       == FindNode(edge.to.node)
        target   == graph.nodes[ti]
        inType   == IF Registered(target.type)
                    THEN PortType(Registry[target.type].inputs, edge.to.port) ELSE ""
        outMsg   == OutputMismatch(node.id, edge.from.port, outType, getValueType(value))
        inMsg    == InputMismatch(node.type, edge.from.port, getValueType(value),
                                  target.type, edge.to.port, inType)
        staged   == [S EXCEPT
                        !.nv = MapSet(@, target.id,
                                      MapSet(NodeMap(@, target.id), InKey(edge.to.port), value)),
                        !.it = inferTypeForPort(@, target.id, InKey(edge.to.port), value, inType),
                        !.tasks[t].pos = from,
                        !.trace = Append(@, Event("stage", t, target.id, e,
                                                 << <<InKey(edge.to.port), value>> >>, ""))]
        call     == executeNode(staged, ti, t)
    IN  IF from > Len(outgoing)
        THEN [S EXCEPT !.jobs = Append(@, Job("propDone", t, ""))]
        ELSE IF outType # "" /\ ~IsUndef(value) /\ ~isTypeCompatible(value, outType)
        THEN [S EXCEPT !.jobs  = Append(@, Job("propDone", t, outMsg)),
                       !.trace = Append(@, Event("mismatchOut", t, node.id, e, <<>>, outMsg))]
        ELSE IF ti = 0
        THEN propagateOutputs(S, t, from + 1)
        ELSE IF inType # "" /\ ~IsUndef(value) /\ ~isTypeCompatible(value, inType)
        THEN [S EXCEPT !.jobs  = Append(@, Job("propDone", t, inMsg)),
                       !.trace = Append(@, Event("mismatchIn", t, target.id, e, <<>>, inMsg))]
        ELSE IF call.out = "pending" THEN propagateOutputs(call.S, t, from + 1)
        ELSE [call.S EXCEPT !.jobs = Append(@, Job("childDone", t, call.err))]

\* propagateOutputs checking an undefined value against the declared types too
propagateOutputs_checksUndefined(S, t, from) ==
    LET node     == graph.nodes[S.tasks[t].node]
        outgoing == OutgoingEdges(node.id)
        e        == outgoing[from]
        edge     == graph.edges[e]
        value    == MapGet(NodeMap(S.nv, edge.from.node), edge.from.port, Undef)
        outType  == PortType(Registry[node.type].outputs, edge.from.port)
        ti       == FindNode(edge.to.node)
        target   == graph.nodes[ti]
        inType   == IF Registered(target.type)
                    THEN PortType(Registry[target.type].inputs, edge.to.port) ELSE ""
        outMsg   == OutputMismatch(node.id, edge.from.port, outType, getValueType(value))
        inMsg    == InputMismatch(node.type, edge.from.port, getValueType(value),
                                  target.type, edge.to.port, inType)
        staged   == [S EXCEPT
                        !.nv = MapSet(@, target.id,
                                      MapSet(NodeMap(@, target.id), InKey(edge.to.port), value)),
                        !.it = inferTypeForPort(@, target.id, InKey(edge.to.port), value, inType),
                        !.tasks[t].pos = from,
                        !.trace = Append(@, Event("stage", t, target.id, e,
                                                 << <<InKey(edge.to.port), value>> >>, ""))]
        call     == executeNode(staged, ti, t)
    IN  IF from > Len(outgoing)
        THEN [S EXCEPT !.jobs = Append(@, Job("propDone", t, ""))]
        ELSE IF outType # "" /\ ~isTypeCompatible(value, outType)
        THEN [S EXCEPT !.jobs  = Append(@, Job("propDone", t, outMsg)),
                       !.trace = Append(@, Event("mismatchOut", t, node.id, e, <<>>, outMsg))]
        ELSE IF ti = 0
        THEN propagateOutputs(S, t, from + 1)
        ELSE IF inType # "" /\ ~isTypeCompatible(value, inType)
        THEN [S EXCEPT !.jobs  = Append(@, Job("propDone", t, inMsg)),
                       !.trace = Append(@, Event("mismatchIn", t, target.id, e, <<>>, inMsg))]
        ELSE IF call.out = "pending" THEN call.S
        ELSE [call.S EXCEPT !.jobs = Append(@, Job("childDone", t, call.err))]

\* propagateOutputs without the check of the target's declared input type
propagateOutputs_noInputCheck(S, t, from) ==
    LET node     == graph.nodes[S.tasks[t].node]
        outgoing == OutgoingEdges(node.id)
        e        == outgoing[from]
        edge     == graph.edges[e]
        value    == MapGet(NodeMap(S.nv, edge.from.node), edge.from.port, Undef)
        outType  == PortType(Registry[node.type].outputs, edge.from.port)
        ti       == FindNode(edge.to.node)
        target   == graph.nodes[ti]
        inType   == IF Registered(target.type)
                    THEN PortType(Registry[target.type].inputs, edge.to.port) ELSE ""
        outMsg   == OutputMismatch(node.id, edge.from.port, outType, getValueType(value))
        inMsg    == InputMismatch(node.type, edge.from.port, getValueType(value),
                                  target.type, edge.to.port, inType)
        staged   == [S EXCEPT
                        !.nv = MapSet(@, target.id,
                                      MapSet(NodeMap(@, target.id), InKey(edge.to.port), value)),
                        !.it = inferTypeForPort(@, target.id, InKey(edge.to.port), value, inType),
                        !.tasks[t].pos = from,
                        !.trace = Append(@, Event("stage", t, target.id, e,
                                                 << <<InKey(edge.to.port), value>> >>, ""))]
        call     == executeNode(staged, ti, t)
    IN  IF from > Len(outgoing)
        THEN [S EXCEPT !.jobs = Append(@, Job("propDone", t, ""))]
        ELSE IF outType # "" /\ ~IsUndef(value) /\ ~isTypeCompatible(value, outType)
        THEN [S EXCEPT !.jobs  = Append(@, Job("propDone", t, outMsg)),
                       !.trace = Append(@, Event("mismatchOut", t, node.id, e, <<>>, outMsg))]
        ELSE IF ti = 0
        THEN propagateOutputs(S, t, from + 1)
        ELSE IF call.out = "pending" THEN call.S
        ELSE [call.S EXCEPT !.jobs = Append(@, Job("childDone", t, call.err))]

(***************************************************************************)
propagateOutputs(S, t, from) ==
    LET node     == graph.nodes[S.tasks[t].node]
        outgoing == OutgoingEdges(node.id)
        e        == outgoing[from]
        edge     == graph.edges[e]
        value    == MapGet(NodeMap(S.nv, edge.from.node), edge.from.port, Undef)
        outType  == PortType(Registry[node.type].outputs, edge.from.port)
        ti       == FindNode(edge.to.node)
        target   == graph.nodes[ti]
        inType   == IF Registered(target.type)
                    THEN PortType(Registry[target.type].inputs, edge.to.port) ELSE ""
        outMsg   == OutputMismatch(node.id, edge.from.port, outType, getValueType(value))
        inMsg    == InputMismatch(node.type, edge.from.port, getValueType(value),
                                  target.type, edge.to.port, inType)
        staged   == [S EXCEPT
                        !.nv = MapSet(@, target.id,
                                      MapSet(NodeMap(@, target.id), InKey(edge.to.port), value)),
                        !.it = inferTypeForPort(@, target.id, InKey(edge.to.port), value, inType),
                        !.tasks[t].pos = from,
                        !.trace = Append(@, Event("stage", t, target.id, e,
                                                 << <<InKey(edge.to.port), value>> >>, ""))]
        call     == executeNode(staged, ti, t)
    IN  IF from > Len(outgoing)
        THEN [S EXCEPT !.jobs = Append(@, Job("propDone", t, ""))]
        ELSE IF outType # "" /\ ~IsUndef(value) /\ ~isTypeCompatible(value, outType)
        THEN [S EXCEPT !.jobs  = Append(@, Job("propDone", t, outMsg)),
                       !.trace = Append(@, Event("mismatchOut", t, node.id, e, <<>>, outMsg))]
        ELSE IF ti = 0
        THEN propagateOutputs(S, t, from + 1)
        ELSE IF inType # "" /\ ~IsUndef(value) /\ ~isTypeCompatible(value, inType)
        THEN [S EXCEPT !.jobs  = Append(@, Job("propDone", t, inMsg)),
                       !.trace = Append(@, Event("mismatchIn", t, target.id, e, <<>>, inMsg))]
        ELSE IF call.out = "pending" THEN call.S
        ELSE [call.S EXCEPT !.jobs = Append(@, Job("childDone", t, call.err))]
(***************************************************************************)
(* evaluate()                                                              *)
(***************************************************************************)
\* startNodes.map(node => this.executeNode(node)), then Promise.all subscribes
\* to the promises: the ones already settled queue their reaction at once.
RECURSIVE StartAll(_, _, _, _)

\* the rest of the map once executeNode(starts[i]) has returned the promise `call`
StartRest(call, starts, i, settled) ==
    StartAll(call.S, starts, i + 1,
             IF call.out = "pending" THEN settled
             ELSE Append(settled, Job("allElem", 0, call.err)))

StartAll(S, starts, i, settled) ==
    IF i > Len(starts)
    THEN [S EXCEPT !.jobs = @ \o settled]
    ELSE StartRest(executeNode(S, starts[i], 0), starts, i, settled)

Cleared == [nv |-> EmptyMap, it |-> EmptyMap, ex |-> {}, tasks |-> <<>>, jobs |-> <<>>,
            trace |-> <<>>]

Current == [nv |-> nodeValues, it |-> inferredTypes, ex |-> executedNodes, tasks |-> tasks,
            jobs |-> Tail(jobs), trace |-> trace]

Becomes(S) ==
    /\ nodeValues' = S.nv
    /\ inferredTypes' = S.it
    /\ executedNodes' = S.ex
    /\ tasks' = S.tasks
    /\ jobs' = S.jobs
    /\ trace' = S.trace

\* evaluate() up to `await Promise.all(...)`
Evaluate ==
    /\ phase = "idle"
    /\ LET starts == findStartNodes
           S      == StartAll(Cleared, starts, 1, <<>>)
       IN  IF Len(starts) = 0
           THEN /\ Becomes([S EXCEPT !.jobs = Append(@, Job("evalResume", 0, ""))])
                /\ remaining' = -1
           ELSE /\ Becomes(S)
                /\ remaining' = Len(starts)
    /\ phase' = "running"
    /\ UNCHANGED <<graph, previous, definitions, mapNode, result, validation>>

\* executeNode going on after an execute that threw
ExecDone_ignoresThrow ==
    /\ jobs # <<>> /\ Head(jobs).kind = "execDone"
    /\ LET t  == Head(jobs).task
           id == graph.nodes[tasks[t].node].id
       IN  Becomes(propagateOutputs(
                      [ApplyWrites(Current, tasks[t].node, Head(jobs).writes) EXCEPT
                          !.ex = @ \cup {id},
                          !.trace = Append(@, Event("marked", t, id, 0, <<>>, ""))],
                      t, 1))
    /\ UNCHANGED <<graph, previous, definitions, mapNode, remaining, phase, result, validation>>

\* executeNode after `await definition.execute(context)`: an async execute
\* has set its outputs by now, or has thrown and executeNode rejects
ExecDone ==
    /\ jobs # <<>> /\ Head(jobs).kind = "execDone"
    /\ LET t      == Head(jobs).task
           id     == graph.nodes[tasks[t].node].id
           parent == tasks[t].parent
       IN  IF Head(jobs).err # ""
           THEN Becomes([Current EXCEPT
                            !.jobs = Append(@, Job(IF parent <= 0 THEN "allElem"
                                                   ELSE "childDone", parent, Head(jobs).err))])
           ELSE Becomes(propagateOutputs(
                      [ApplyWrites(Current, tasks[t].node, Head(jobs).writes) EXCEPT
                          !.ex = @ \cup {id},
                          !.trace = Append(@, Event("marked", t, id, 0, <<>>, ""))],
                      t, 1))
    /\ UNCHANGED <<graph, previous, definitions, mapNode, remaining, phase, result, validation>>

\* The nested runs of an async execute are not over yet: its continuation
\* comes a turn of the queue later.
NestedRound ==
    /\ jobs # <<>> /\ Head(jobs).kind = "execDone" /\ Head(jobs).wait > 0
    /\ jobs' = Append(Tail(jobs), [Head(jobs) EXCEPT !.wait = @ - 1])
    /\ UNCHANGED <<graph, previous, definitions, mapNode, nodeValues, inferredTypes,
                   executedNodes, tasks, remaining, phase, result, validation, trace>>

\* propagateOutputs after `await this.executeNode(targetNode)`
ChildDone ==
    /\ jobs # <<>> /\ Head(jobs).kind = "childDone"
    /\ LET t   == Head(jobs).task
           err == Head(jobs).err
       IN  IF err = ""
           THEN Becomes(propagateOutputs(Current, t, tasks[t].pos + 1))
           ELSE Becomes([Current EXCEPT !.jobs = Append(@, Job("propDone", t, err))])
    /\ UNCHANGED <<graph, previous, definitions, mapNode, remaining, phase, result, validation>>

\* executeNode after `await this.propagateOutputs(node)`: the call settles and
\* the continuation of whoever awaits it is queued
PropDone ==
    /\ jobs # <<>> /\ Head(jobs).kind = "propDone"
    /\ LET t   == Head(jobs).task
           err == Head(jobs).err
       IN  IF tasks[t].parent <= 0
           THEN Becomes([Current EXCEPT !.jobs = Append(@, Job("allElem", tasks[t].parent, err))])
           ELSE Becomes([Current EXCEPT !.jobs = Append(@, Job("childDone", tasks[t].parent, err))])
    /\ UNCHANGED <<graph, previous, definitions, mapNode, remaining, phase, result, validation>>

\* Promise.all: one start node's promise settled.  Task -1 marks a promise of
\* an earlier call of evaluate(), whose Promise.all is settled.
AllElem ==
    /\ jobs # <<>> /\ Head(jobs).kind = "allElem"
    /\ LET err == Head(jobs).err
       IN  IF remaining = -1 \/ Head(jobs).task = -1
           THEN /\ jobs' = Tail(jobs)
                /\ UNCHANGED remaining
           ELSE IF err # ""
           THEN /\ jobs' = Append(Tail(jobs), Job("evalResume", 0, err))
                /\ remaining' = -1
           ELSE IF remaining = 1
           THEN /\ jobs' = Append(Tail(jobs), Job("evalResume", 0, ""))
                /\ remaining' = -1
           ELSE /\ jobs' = Tail(jobs)
                /\ remaining' = remaining - 1
    /\ UNCHANGED <<graph, previous, definitions, mapNode, nodeValues, inferredTypes, executedNodes, tasks, phase, result,
                   validation, trace>>

\* outputs[`${nodeId}.${port}`] = value over nodeValues, in insertion order
RECURSIVE FlattenNode(_, _, _, _)
FlattenNode(outputs, id, values, i) ==
    IF i > Len(values) THEN outputs
    ELSE FlattenNode(MapSet(outputs, id \o "." \o values[i][1], values[i][2]), id, values, i + 1)

RECURSIVE Flatten(_, _, _)
Flatten(outputs, nv, i) ==
    IF i > Len(nv) THEN outputs
    ELSE Flatten(FlattenNode(outputs, nv[i][1], nv[i][2], 1), nv, i + 1)

NoResult == [success |-> FALSE, outputs |-> EmptyMap, inferredTypes |-> EmptyMap, error |-> ""]

\* evaluate() after `await Promise.all(...)`: the result, or the catch block
EvalResume ==
    /\ jobs # <<>> /\ Head(jobs).kind = "evalResume"
    /\ result' = IF Head(jobs).err = ""
                 THEN [success |-> TRUE, outputs |-> Flatten(EmptyMap, nodeValues, 1),
                       inferredTypes |-> inferredTypes, error |-> ""]
                 ELSE [success |-> FALSE, outputs |-> EmptyMap, inferredTypes |-> EmptyMap,
                       error |-> Head(jobs).err]
    /\ phase' = CASE phase = "rerun" -> "returnedRerun"
                   [] phase = "fresh" -> "returnedFresh"
                   [] OTHER -> "returned"
    /\ jobs' = Append(Tail(jobs), Job("caller", 0, ""))
    /\ UNCHANGED <<graph, previous, definitions, mapNode, nodeValues, inferredTypes, executedNodes, tasks, remaining,
                   validation, trace>>

\* the continuation of the caller's `await evaluator.evaluate()`, calling
\* nothing more
Caller ==
    /\ mapNode.state = "none"
    /\ jobs # <<>> /\ Head(jobs).kind = "caller"
    /\ jobs' = Tail(jobs)
    /\ UNCHANGED <<graph, previous, definitions, mapNode, nodeValues, inferredTypes, executedNodes, tasks, remaining,
                   phase, result, validation, trace>>

\* The executeNode calls and the settlements still queued when evaluate() is
\* called again belong to the call that returned: its Promise.all is settled.
Earlier(S) ==
    [S EXCEPT !.tasks = [t \in 1..Len(@) |-> [@[t] EXCEPT !.parent = IF @ = 0 THEN -1 ELSE @]],
              !.jobs  = [j \in 1..Len(@) |->
                            IF @[j].kind = "allElem" THEN [@[j] EXCEPT !.task = -1] ELSE @[j]]]

\* evaluate() called again without executedNodes.clear()
Reevaluate_marksKept ==
    /\ jobs # <<>> /\ Head(jobs).kind = "caller"
    /\ phase = "returned"
    /\ \E fresh \in BOOLEAN :
          LET starts == findStartNodes
              base   == IF fresh THEN [Cleared EXCEPT !.trace = trace]
                        ELSE Earlier([Current EXCEPT !.nv = EmptyMap, !.it = EmptyMap])
              S      == StartAll(base, starts, 1, <<>>)
          IN  /\ IF Len(starts) = 0
                 THEN /\ Becomes([S EXCEPT !.jobs = Append(@, Job("evalResume", 0, ""))])
                      /\ remaining' = -1
                 ELSE /\ Becomes(S)
                      /\ remaining' = Len(starts)
              /\ phase' = IF fresh THEN "fresh" ELSE "rerun"
    /\ previous' = result
    /\ UNCHANGED <<graph, definitions, mapNode, result, validation>>

\* The continuation of the caller's `await evaluator.evaluate()`, calling
\* evaluate() a second time up to its `await Promise.all(...)`: on the same
\* evaluator, whose maps are cleared while the continuations of the first
\* call stay queued, or on a newly constructed evaluator over the same graph,
\* which the continuations of the first call do not touch.
Reevaluate ==
    /\ jobs # <<>> /\ Head(jobs).kind = "caller"
    /\ phase = "returned"
    /\ \E fresh \in BOOLEAN :
          LET starts == findStartNodes
              base   == IF fresh THEN [Cleared EXCEPT !.trace = trace]
                        ELSE Earlier([Current EXCEPT !.nv = EmptyMap, !.it = EmptyMap,
                                                    !.ex = {}])
              S      == StartAll(base, starts, 1, <<>>)
          IN  /\ IF Len(starts) = 0
                 THEN /\ Becomes([S EXCEPT !.jobs = Append(@, Job("evalResume", 0, ""))])
                      /\ remaining' = -1
                 ELSE /\ Becomes(S)
                      /\ remaining' = Len(starts)
              /\ phase' = IF fresh THEN "fresh" ELSE "rerun"
    /\ previous' = result
    /\ UNCHANGED <<graph, definitions, mapNode, result, validation>>

(***************************************************************************)
(* validate()                                                              *)
(*                                                                         *)
(* An error or warning is [kind, args]: the message template and the       *)
(* strings interpolated into it, in order.  The cycle error keeps the path *)
(* that the code joins with ' -> '.                                        *)
(***************************************************************************)
Message(kind, args) == [kind |-> kind, args |-> args]

\* the adjacency list: adjacency.get(id), the targets of the edges out of id
Neighbors(id) ==
    LET out == OutgoingEdges(id)
    IN  [i \in 1..Len(out) |-> graph.edges[out[i]].to.node]

\* path.indexOf(id), counted from 1; 0 when id is not in path
IndexOf(path, id) ==
    IF \E i \in 1..Len(path) : path[i] = id
    THEN CHOOSE i \in 1..Len(path) : path[i] = id /\ \A j \in 1..(i - 1) : path[j] # id
    ELSE 0

\* path.slice(path.indexOf(id)): slice(-1) is the last element
SliceFrom(path, id) ==
    IF IndexOf(path, id) = 0 THEN SubSeq(path, Len(path), Len(path))
    ELSE SubSeq(path, IndexOf(path, id), Len(path))

\* The closure dfs of detectCycles.  D is [visited, recursionStack, cycle];
\* cycle is the path found, <<>> for null.
RECURSIVE dfs(_, _, _)
RECURSIVE dfsNeighbors(_, _, _, _)
\* the neighbor loop leaving the node on the recursion stack when it returns
dfsNeighbors_stackKept(D, id, path, i) ==
    LET neighbors == Neighbors(id)
        neighbor  == neighbors[i]
        below     == dfs(D, neighbor, path)
    IN  IF i > Len(neighbors)
        THEN D
        ELSE IF neighbor \notin D.visited
        THEN IF below.cycle # <<>> THEN below
             ELSE dfsNeighbors(below, id, path, i + 1)
        ELSE IF neighbor \in D.recursionStack
        THEN [D EXCEPT !.cycle = SliceFrom(path, neighbor) \o <<neighbor>>]
        ELSE dfsNeighbors(D, id, path, i + 1)

dfs(D, id, path) ==
    dfsNeighbors([D EXCEPT !.visited = @ \cup {id}, !.recursionStack = @ \cup {id}],
                 id, Append(path, id), 1)

dfsNeighbors(D, id, path, i) ==
    LET neighbors == Neighbors(id)
        neighbor  == neighbors[i]
        below     == dfs(D, neighbor, path)
    IN  IF i > Len(neighbors)
        THEN [D EXCEPT !.recursionStack = @ \ {id}]
        ELSE IF neighbor \notin D.visited
        THEN IF below.cycle # <<>> THEN below
             ELSE dfsNeighbors(below, id, path, i + 1)
        ELSE IF neighbor \in D.recursionStack
        THEN [D EXCEPT !.cycle = SliceFrom(path, neighbor) \o <<neighbor>>]
        ELSE dfsNeighbors(D, id, path, i + 1)

\* the loop `for (const node of this.graph.nodes)` of detectCycles
RECURSIVE detectFrom(_, _)
detectFrom(D, i) ==
    IF i > Len(graph.nodes) THEN D
    ELSE IF graph.nodes[i].id \in D.visited THEN detectFrom(D, i + 1)
    ELSE LET found == dfs(D, graph.nodes[i].id, <<>>)
         IN  IF found.cycle # <<>> THEN found ELSE detectFrom(found, i + 1)

\* detectCycles: the cycle path, <<>> when hasCycle is false
detectCycles == detectFrom([visited |-> {}, recursionStack |-> {}, cycle |-> <<>>], 1).cycle

\* the BFS loop of findReachableNodes
RECURSIVE Reach(_, _)
Reach(queue, reachable) ==
    IF Len(queue) = 0 THEN reachable
    ELSE IF Head(queue) \in reachable THEN Reach(Tail(queue), reachable)
    ELSE Reach(Tail(queue) \o Neighbors(Head(queue)), reachable \cup {Head(queue)})

findReachableNodes ==
    Reach([i \in 1..Len(findStartNodes) |-> graph.nodes[findStartNodes[i]].id], {})

\* areTypesCompatible(sourceType, targetType) of ./types
areTypesCompatible(sourceType, targetType) ==
    \/ sourceType = "any"
    \/ targetType = "any"
    \/ \E i \in 1..Len(TypeMembers(sourceType)), j \in 1..Len(TypeMembers(targetType)) :
          \/ TypeMembers(sourceType)[i] = TypeMembers(targetType)[j]
          \/ TypeMembers(sourceType)[i] = "any"
          \/ TypeMembers(targetType)[j] = "any"

\* step 2: one error per node whose type the registry does not have
UnknownTypeErrors ==
    LET bad == SelectSeq([i \in 1..Len(graph.nodes) |-> i],
                         LAMBDA i : ~Registered(graph.nodes[i].type))
    IN  [k \in 1..Len(bad) |->
            Message("Node has unknown type", <<graph.nodes[bad[k]].id, graph.nodes[bad[k]].type>>)]

\* step 3: per edge, an error for a missing source, then one for a missing target
RECURSIVE EdgeErrors(_)
EdgeErrors(e) ==
    IF e > Len(graph.edges) THEN <<>>
    ELSE (IF graph.edges[e].from.node \notin NodeIds
          THEN <<Message("Edge references non-existent source node",
                         <<graph.edges[e].from.node>>)>>
          ELSE <<>>)
         \o (IF graph.edges[e].to.node \notin NodeIds
             THEN <<Message("Edge references non-existent target node",
                            <<graph.edges[e].to.node>>)>>
             ELSE <<>>)
         \o EdgeErrors(e + 1)

\* step 5: the inferred output type of every Value node that has a value
RECURSIVE ValueTypes(_, _)
ValueTypes(types, i) ==
    LET node    == graph.nodes[i]
        outputs == Registry[node.type].outputs
        value   == node.data.value
    IN  IF i > Len(graph.nodes) THEN types
        ELSE IF Registered(node.type) /\ node.type = "Value"
                /\ "value" \in node.data.keys /\ ~IsUndef(value)
        THEN ValueTypes(
                 MapSet(types, node.id \o ".out",
                        [inferredType |-> getValueType(value),
                         declaredType |-> IF Len(outputs) > 0 THEN outputs[1].type ELSE "",
                         isCompatible |-> IF Len(outputs) > 0
                                          THEN isTypeCompatible(value, outputs[1].type)
                                          ELSE TRUE]),
                 i + 1)
        ELSE ValueTypes(types, i + 1)

\* step 6: V is [errors, types]; every edge between registered nodes is
\* checked and the inferred type of its target input recorded
RECURSIVE CheckEdges(_, _)
CheckEdges(V, e) ==
    LET edge       == graph.edges[e]
        si         == FindNode(edge.from.node)
        ti         == FindNode(edge.to.node)
        sourceNode == graph.nodes[si]
        targetNode == graph.nodes[ti]
        declared   == PortType(Registry[sourceNode.type].outputs, edge.from.port)
        sourceKey  == edge.from.node \o "." \o edge.from.port
        sourceType == IF MapHas(V.types, sourceKey)
                      THEN MapGet(V.types, sourceKey, <<>>).inferredType
                      ELSE IF declared # "" THEN declared ELSE "any"
        inType     == PortType(Registry[targetNode.type].inputs, edge.to.port)
        targetType == IF inType # "" THEN inType ELSE "any"
    IN  IF e > Len(graph.edges) THEN V
        ELSE IF si = 0 \/ ti = 0 THEN CheckEdges(V, e + 1)
        ELSE IF ~Registered(sourceNode.type) \/ ~Registered(targetNode.type)
        THEN CheckEdges(V, e + 1)
        ELSE CheckEdges(
                 [errors |-> IF areTypesCompatible(sourceType, targetType) THEN V.errors
                             ELSE Append(V.errors,
                                         Message("Type mismatch: cannot connect",
                                                 <<sourceNode.type, edge.from.port, sourceType,
                                                   targetNode.type, edge.to.port, targetType>>)),
                  types  |-> MapSet(V.types, edge.to.node \o ".input." \o edge.to.port,
                                    [inferredType |-> sourceType,
                                     declaredType |-> targetType,
                                     isCompatible |-> areTypesCompatible(sourceType, targetType)])],
                 e + 1)

\* step 7: a warning for every node the BFS does not reach
UnreachableWarnings ==
    LET lost == SelectSeq([i \in 1..Len(graph.nodes) |-> i],
                          LAMBDA i : graph.nodes[i].id \notin findReachableNodes)
    IN  [k \in 1..Len(lost) |->
            Message("Node is not reachable from any input",
                    <<graph.nodes[lost[k]].id, graph.nodes[lost[k]].type>>)]

ValidationResult(success, errors, warnings, types) ==
    [done |-> TRUE, success |-> success, errors |-> errors, warnings |-> warnings,
     inferredTypes |-> types]

\* validate reporting the nodes the BFS does not reach among the errors
validate_unreachableErrors ==
    LET basic  == UnknownTypeErrors \o EdgeErrors(1)
        cycle  == detectCycles
        errors == IF cycle # <<>> THEN <<Message("Graph contains cycles", cycle)>> ELSE <<>>
        V      == CheckEdges([errors |-> errors, types |-> ValueTypes(EmptyMap, 1)], 1)
        all    == V.errors \o UnreachableWarnings
    IN  IF Len(graph.nodes) = 0
        THEN ValidationResult(FALSE, <<Message("Graph has no nodes", <<>>)>>, <<>>, EmptyMap)
        ELSE IF Len(basic) > 0
        THEN ValidationResult(FALSE, basic, <<>>, EmptyMap)
        ELSE ValidationResult(Len(all) = 0, all, <<>>, V.types)

\* validate going on to the cycle, type and reachability steps after basic errors
validate_noEarlyReturn ==
    LET basic  == UnknownTypeErrors \o EdgeErrors(1)
        cycle  == detectCycles
        errors == IF cycle # <<>> THEN <<Message("Graph contains cycles", cycle)>> ELSE <<>>
        V      == CheckEdges([errors |-> errors, types |-> ValueTypes(EmptyMap, 1)], 1)
    IN  IF Len(graph.nodes) = 0
        THEN ValidationResult(FALSE, <<Message("Graph has no nodes", <<>>)>>, <<>>, EmptyMap)
        ELSE ValidationResult(Len(basic \o V.errors) = 0, basic \o V.errors,
                              UnreachableWarnings, V.types)

validate ==
    LET basic  == UnknownTypeErrors \o EdgeErrors(1)
        cycle  == detectCycles
        errors == IF cycle # <<>> THEN <<Message("Graph contains cycles", cycle)>> ELSE <<>>
        V      == CheckEdges([errors |-> errors, types |-> ValueTypes(EmptyMap, 1)], 1)
    IN  IF Len(graph.nodes) = 0
        THEN ValidationResult(FALSE, <<Message("Graph has no nodes", <<>>)>>, <<>>, EmptyMap)
        ELSE IF Len(basic) > 0
        THEN ValidationResult(FALSE, basic, <<>>, EmptyMap)
        ELSE ValidationResult(Len(V.errors) = 0, V.errors, UnreachableWarnings, V.types)

NoValidation ==
    [done |-> FALSE, success |-> FALSE, errors |-> <<>>, warnings |-> <<>>,
     inferredTypes |-> EmptyMap]

\* validate() keeping its inferred types in the evaluator's own map
Validate_sharedTypes ==
    /\ ~validation.done
    /\ validation' = validate
    /\ inferredTypes' = validate.inferredTypes
    /\ UNCHANGED <<graph, previous, definitions, mapNode, nodeValues, executedNodes, tasks, jobs, remaining, phase, result,
                   trace>>

\* validate(): no await inside, so the whole call is one step
Validate ==
    /\ ~validation.done
    /\ validation' = validate
    /\ UNCHANGED <<graph, previous, definitions, mapNode, nodeValues, inferredTypes, executedNodes, tasks, jobs, remaining,
                   phase, result, trace>>

Init ==
    /\ graph \in EvalGraphs
    /\ nodeValues = EmptyMap
    /\ inferredTypes = EmptyMap
    /\ executedNodes = {}
    /\ tasks = <<>>
    /\ jobs = <<>>
    /\ remaining = 0
    /\ phase = "idle"
    /\ result = NoResult
    /\ previous = NoResult
    /\ definitions = EmptyMap
    /\ mapNode = NoMap
    /\ validation = NoValidation
    /\ trace = <<>>

Next ==
    \/ Evaluate
    \/ ExecDone
    \/ ChildDone
    \/ PropDone
    \/ AllElem
    \/ EvalResume
    \/ Caller

Spec == Init /\ [][Next]_vars

\* evaluate() over every graph of three nodes and at most MaxCycleEdges edges,
\* the cyclic ones and the ones without a start node included.  The job queue
\* of the engine runs every continuation that is queued: weak fairness of
\* Next.  Next is enabled exactly in the states that are not Quiet (each kind
\* of job has its action, whose only guard is the head of the queue), so
\* WF_vars(Next) is written with Quiet in place of ~ENABLED <<Next>>_vars.
MaxCycleEdges == 3

CycleGraphs ==
    {ValidateGraph("Add", "Multiply", es) :
        es \in UNION {{l \in [1..k -> {"a", "b", "c"} \X {"a", "b", "c"}] :
                          \A i, j \in 1..k : i # j => l[i] # l[j]} : k \in 0..MaxCycleEdges}}

InitCycle ==
    /\ graph \in CycleGraphs
    /\ nodeValues = EmptyMap
    /\ inferredTypes = EmptyMap
    /\ executedNodes = {}
    /\ tasks = <<>>
    /\ jobs = <<>>
    /\ remaining = 0
    /\ phase = "idle"
    /\ result = NoResult
    /\ previous = NoResult
    /\ definitions = EmptyMap
    /\ mapNode = NoMap
    /\ validation = NoValidation
    /\ trace = <<>>

\* evaluate() has been called and no continuation is queued
Quiet == phase # "idle" /\ jobs = <<>>

\* the head of the queue is a continuation that one of the actions runs
Ready ==
    \/ phase = "idle"
    \/ /\ jobs # <<>>
       /\ Head(jobs).kind \in {"execDone", "childDone", "propDone", "allElem", "evalResume",
                                "caller"}

SpecCycle == InitCycle /\ [][Next]_vars /\ ([]<>Quiet \/ []<><<Next>>_vars)

\* validate() alone, over the graphs of ValidateGraphs
InitValidate ==
    /\ graph \in ValidateGraphs
    /\ nodeValues = EmptyMap
    /\ inferredTypes = EmptyMap
    /\ executedNodes = {}
    /\ tasks = <<>>
    /\ jobs = <<>>
    /\ remaining = 0
    /\ phase = "idle"
    /\ result = NoResult
    /\ previous = NoResult
    /\ definitions = EmptyMap
    /\ mapNode = NoMap
    /\ validation = NoValidation
    /\ trace = <<>>

NextValidate == Validate

SpecValidate == InitValidate /\ [][NextValidate]_vars

\* validate() called once at any moment of a run of evaluate(): before it,
\* between two of its continuations, or after it returned
InitFrame ==
    /\ graph \in FrameGraphs
    /\ nodeValues = EmptyMap
    /\ inferredTypes = EmptyMap
    /\ executedNodes = {}
    /\ tasks = <<>>
    /\ jobs = <<>>
    /\ remaining = 0
    /\ phase = "idle"
    /\ result = NoResult
    /\ previous = NoResult
    /\ definitions = EmptyMap
    /\ mapNode = NoMap
    /\ validation = NoValidation
    /\ trace = <<>>

NextFrame ==
    \/ Evaluate
    \/ ExecDone
    \/ ChildDone
    \/ PropDone
    \/ AllElem
    \/ EvalResume
    \/ Caller
    \/ Validate

SpecFrame == InitFrame /\ [][NextFrame]_vars

\* evaluate() called, awaited and called again
InitRerun ==
    /\ graph \in RerunGraphs
    /\ nodeValues = EmptyMap
    /\ inferredTypes = EmptyMap
    /\ executedNodes = {}
    /\ tasks = <<>>
    /\ jobs = <<>>
    /\ remaining = 0
    /\ phase = "idle"
    /\ result = NoResult
    /\ previous = NoResult
    /\ definitions = EmptyMap
    /\ mapNode = NoMap
    /\ validation = NoValidation
    /\ trace = <<>>

NextRerun ==
    \/ Evaluate
    \/ ExecDone
    \/ ChildDone
    \/ PropDone
    \/ AllElem
    \/ EvalResume
    \/ Reevaluate
    \/ Caller

SpecRerun == InitRerun /\ [][NextRerun]_vars

(***************************************************************************)
(* DefaultNodeRegistry.  A definition is [type, category, description]; the *)
(* description tells two definitions of one type apart.                    *)
(***************************************************************************)
MaxRegister == 3

Definitions ==
    [type : {"Add", "If"}, category : {"math", "control"}, description : {"first", "second"}]

\* what Map.get returns for a type never registered
Undefined == [type |-> "", category |-> "", description |-> ""]

\* register keeping the definition a type already has
register_firstWins(m, definition) ==
    IF MapHas(m, definition.type) THEN m ELSE Append(m, <<definition.type, definition>>)

\* register(definition): this.definitions.set(definition.type, definition)
register(m, definition) == MapSet(m, definition.type, definition)

\* get(type)
get(m, type) == MapGet(m, type, Undefined)

\* getAll(): Array.from(this.definitions.values())
getAll(m) == [i \in 1..Len(m) |-> m[i][2]]

\* getByCategory(category)
getByCategory(m, category) == SelectSeq(getAll(m), LAMBDA def : def.category = category)

\* one register call; trace keeps the definitions registered, in call order
Register ==
    /\ Len(trace) < MaxRegister
    /\ \E definition \in Definitions :
          /\ definitions' = register(definitions, definition)
          /\ trace' = Append(trace, definition)
    /\ UNCHANGED <<graph, previous, mapNode, nodeValues, inferredTypes, executedNodes, tasks,
                   jobs, remaining, phase, result, validation>>

InitRegistry ==
    /\ graph = SAMPLE_GRAPH
    /\ nodeValues = EmptyMap
    /\ inferredTypes = EmptyMap
    /\ executedNodes = {}
    /\ tasks = <<>>
    /\ jobs = <<>>
    /\ remaining = 0
    /\ phase = "idle"
    /\ result = NoResult
    /\ previous = NoResult
    /\ definitions = EmptyMap
    /\ mapNode = NoMap
    /\ validation = NoValidation
    /\ trace = <<>>

NextRegistry == Register

SpecRegistry == InitRegistry /\ [][NextRegistry]_vars

(***************************************************************************)
(* One node definition's execute, called once on a node whose inputs are   *)
(* staged.  A case is [type, data, inputs]: inputs is the node's value map *)
(* before the call.                                                        *)
(***************************************************************************)
MaxArrayLen == 2

MaxInputs == 2

\* the sequences over S of length lo..hi
SeqsOf(S, lo, hi) == UNION {[1..n -> S] : n \in lo..hi}

\* the value map holding values[i] under `input.<names[i]>`
Staged(names, values) == [i \in 1..Len(names) |-> <<InKey(names[i]), values[i]>>]

Case(type, data, inputs) == [type |-> type, data |-> data, inputs |-> inputs]

Operands ==
    {Num(10), Str("5"), NumArr(<<1, 2, 3, 4, 5>>), NumArr(<<10, 20>>)}
        \cup {NumArr(xs) : xs \in SeqsOf({1, 2}, 0, MaxArrayLen)}

PortNames(n) == [i \in 1..n |-> "in" \o NatToStr(i - 1)]

\* in0, in1, ... all connected, or in1 left unconnected
AddCases ==
    {Case("Add", NoData, Staged(PortNames(Len(vs)), vs)) : vs \in SeqsOf(Operands, 1, MaxInputs)}
        \cup {Case("Add", NoData, Staged(<<"in0", "in2">>, vs)) : vs \in SeqsOf(Operands, 2, 2)}

\* the port names of `names` whose value is connected (not undefined)
Connected(names, values) ==
    LET keep == SelectSeq([i \in 1..Len(names) |-> i], LAMBDA i : ~IsUndef(values[i]))
    IN  Staged([i \in 1..Len(keep) |-> names[keep[i]]], [i \in 1..Len(keep) |-> values[keep[i]]])

\* <<first, first + 1, ...>> of length n
Run(first, n) == [i \in 1..n |-> first + i - 1]

Conditions ==
    {Bool(TRUE), Bool(FALSE)}
        \cup {Arr(xs) : xs \in SeqsOf({Bool(TRUE), Bool(FALSE), Num(0)}, 0, MaxArrayLen + 1)}

Branches(first) == {Undef, Num(first)} \cup {NumArr(Run(first, n)) : n \in 0..MaxArrayLen}

IfCases ==
    {Case("If", NoData, Connected(<<"condition", "true", "false">>, <<c, t, f>>)) :
        c \in Conditions, t \in Branches(1), f \in Branches(11)}

\* the entries a cases object is built from; the last one names the port
\* 'default' itself
CaseEntries ==
    << <<"option1", "case1">>, <<"option2", "case2">>, <<"5", "five">>, <<"10", "default">> >>

\* the cases objects holding the entries of CaseEntries picked by `keep`
CasesObjects ==
    {SelectSeq(CaseEntries, LAMBDA e : e[1] \in keep) :
        keep \in SUBSET {CaseEntries[i][1] : i \in 1..Len(CaseEntries)}}

SwitchValues ==
    {Undef, Str("option1"), Str("option2"), Str("option3"), Str("5"), Num(5), Num(10),
     NumArr(<<5>>), Bool(TRUE)}

SwitchCases ==
    {Case("Switch", d, Connected(<<"value">>, <<v>>)) :
        d \in {NoData} \cup {CasesData(cs) : cs \in CasesObjects}, v \in SwitchValues}

ExecuteCases == AddCases \cup IfCases \cup SwitchCases

\* execute(context) on the node, its writes applied by setOutputValue
ExecuteNode ==
    /\ phase = "idle"
    /\ LET node == graph.nodes[1]
           r    == Execute(node.type, NodeMap(nodeValues, node.id), node.data)
           S    == ApplyWrites([Cleared EXCEPT !.nv = nodeValues], 1, r.writes)
       IN  /\ nodeValues' = S.nv
           /\ inferredTypes' = S.it
           /\ result' = [NoResult EXCEPT !.error = r.err]
           /\ trace' = <<Event("exec", 0, node.id, 0, NodeMap(nodeValues, node.id), r.err)>>
    /\ phase' = "executed"
    /\ UNCHANGED <<graph, previous, definitions, mapNode, executedNodes, tasks, jobs, remaining,
                   validation>>

InitExecute ==
    /\ \E c \in ExecuteCases :
          /\ graph = [nodes |-> <<GraphNode("node", c.type, c.data)>>, edges |-> <<>>]
          /\ nodeValues = <<<<"node", c.inputs>>>>
    /\ inferredTypes = EmptyMap
    /\ executedNodes = {}
    /\ tasks = <<>>
    /\ jobs = <<>>
    /\ remaining = 0
    /\ phase = "idle"
    /\ result = NoResult
    /\ previous = NoResult
    /\ definitions = EmptyMap
    /\ mapNode = NoMap
    /\ validation = NoValidation
    /\ trace = <<>>

NextExecute == ExecuteNode

SpecExecute == InitExecute /\ [][NextExecute]_vars

(***************************************************************************)
(* evaluate() on graphs of control nodes: Value nodes a and b feeding a    *)
(* Compare or a Switch node whose result goes to an Output node.           *)
(***************************************************************************)
\* shape 0: no edge into the node; 1: a only; 2: a then b; 3: b then a
FeedEdges(shape, target, portA, portB) ==
    CASE shape = 0 -> <<>>
      [] shape = 1 -> <<GraphEdge("a", "out", target, portA)>>
      [] shape = 2 -> <<GraphEdge("a", "out", target, portA), GraphEdge("b", "out", target, portB)>>
      [] shape = 3 -> <<GraphEdge("b", "out", target, portB), GraphEdge("a", "out", target, portA)>>

CompareGraph(va, vb, operator, shape) ==
    [nodes |-> <<GraphNode("a", "Value", ValueData(va)),
                 GraphNode("b", "Value", ValueData(vb)),
                 GraphNode("compare", "Compare", OperatorData(operator)),
                 GraphNode("output", "Output", OutputsData(<<"result">>))>>,
     edges |-> FeedEdges(shape, "compare", "a", "b")
                  \o <<GraphEdge("compare", "out", "output", "result")>>]

CompareGraphs ==
    {CompareGraph(va, vb, operator, shape) :
        va \in {Num(5), Str("abc"), NumArr(<<>>), NumArr(<<1, 2>>)},
        vb \in {Num(5), NumArr(<<>>)},
        operator \in {">", "~=", "=>"},
        shape \in 0..3}

SwitchGraph(va, vb, shape) ==
    [nodes |-> <<GraphNode("a", "Value", ValueData(va)),
                 GraphNode("b", "Value", ValueData(vb)),
                 GraphNode("switch", "Switch",
                           CasesData(<< <<"option1", "case1">>, <<"option2", "case2">> >>)),
                 GraphNode("output", "Output", OutputsData(<<"result">>))>>,
     edges |-> FeedEdges(shape, "switch", "value", "value")
                  \o <<GraphEdge("switch", "case1", "output", "result")>>]

SwitchGraphs ==
    {SwitchGraph(va, vb, shape) :
        va \in {Str("option1"), Str("option2"), Str("option3")},
        vb \in {Str("option1"), Str("option2"), Str("option3")},
        shape \in 0..3}

ControlGraphs == CompareGraphs \cup SwitchGraphs

InitControl ==
    /\ graph \in ControlGraphs
    /\ nodeValues = EmptyMap
    /\ inferredTypes = EmptyMap
    /\ executedNodes = {}
    /\ tasks = <<>>
    /\ jobs = <<>>
    /\ remaining = 0
    /\ phase = "idle"
    /\ result = NoResult
    /\ previous = NoResult
    /\ definitions = EmptyMap
    /\ mapNode = NoMap
    /\ validation = NoValidation
    /\ trace = <<>>

NextControl ==
    \/ Evaluate
    \/ ExecDone
    \/ ChildDone
    \/ PropDone
    \/ AllElem
    \/ EvalResume
    \/ Caller

SpecControl == InitControl /\ [][NextControl]_vars

\* evaluate() on graphs with one edge that leaves a port its source may never
\* write: a port the Value node does not have, a branch port of an If node
\* whose condition is b, its "default" port that no If writes, or (for
\* comparison) the written port "out" of the Value node.  The edge enters a
\* declared input port of the target.
UnwrittenSources ==
    {<<"v", "aux">>, <<"v", "out">>, <<"if", "trueOut">>, <<"if", "falseOut">>,
     <<"if", "default">>}

UnwrittenTargets ==
    {<<"Compare", "a", OperatorData(">")>>, <<"If", "condition", NoData>>,
     <<"Map", "array", SubgraphData(DOUBLE_SUBGRAPH)>>,
     <<"Filter", "array", SubgraphData(GREATER_SUBGRAPH)>>,
     <<"Reduce", "initial", SubgraphData(SUM_SUBGRAPH)>>, <<"Add", "in0", NoData>>}

UnwrittenGraph(b, source, target) ==
    [nodes |-> <<GraphNode("c", "Value", ValueData(Bool(b))),
                 GraphNode("v", "Value", ValueData(Num(10))),
                 GraphNode("if", "If", NoData),
                 GraphNode("target", target[1], target[3]),
                 GraphNode("output", "Output", OutputsData(<<"result">>))>>,
     edges |-> <<GraphEdge("c", "out", "if", "condition"),
                 GraphEdge(source[1], source[2], "target", target[2]),
                 GraphEdge("target", "out", "output", "result")>>]

UnwrittenGraphs ==
    {UnwrittenGraph(b, source, target) :
        b \in BOOLEAN, source \in UnwrittenSources, target \in UnwrittenTargets}

InitUnwritten ==
    /\ graph \in UnwrittenGraphs
    /\ nodeValues = EmptyMap
    /\ inferredTypes = EmptyMap
    /\ executedNodes = {}
    /\ tasks = <<>>
    /\ jobs = <<>>
    /\ remaining = 0
    /\ phase = "idle"
    /\ result = NoResult
    /\ previous = NoResult
    /\ definitions = EmptyMap
    /\ mapNode = NoMap
    /\ validation = NoValidation
    /\ trace = <<>>

NextUnwritten ==
    \/ Evaluate
    \/ ExecDone
    \/ ChildDone
    \/ PropDone
    \/ AllElem
    \/ EvalResume
    \/ Caller

SpecUnwritten == InitUnwritten /\ [][NextUnwritten]_vars

(***************************************************************************)
(* MapNode.execute.  mapNode holds the call: type is the node's type, array *)
(* and subgraph (and initial, for Reduce) are its inputs, index the element *)
(* whose subgraph run is awaited, results the values pushed so far,        *)
(* accumulator Reduce's accumulator, out the value written, err the Error  *)
(* thrown; state is "called", "awaiting", "done" or "failed".  The         *)
(* evaluator of the model is the one the call constructs for the current   *)
(* element.                                                                *)
(***************************************************************************)
MaxMapLen == 2

\* key.includes(part)
Includes(key, part) ==
    \E i \in 1..(Len(key) - Len(part) + 1) : SubSeq(key, i, i + Len(part) - 1) = part

\* createSubgraphWithInput(subgraph, inputValue)
createSubgraphWithInput(subgraph, inputValue) ==
    [nodes |-> [i \in 1..Len(subgraph.nodes) |->
                   LET node == subgraph.nodes[i]
                   IN  IF node.type = "Input" \/ node.id = "input" \/ node.id = "element"
                       THEN [node EXCEPT !.type = "Value", !.data = ValueData(inputValue)]
                       ELSE node],
     edges |-> subgraph.edges]

\* extractSubgraphOutput(outputs)
extractSubgraphOutput(outputs) ==
    LET hits == {i \in 1..Len(outputs) :
                    Includes(outputs[i][1], "output.") \/ Includes(outputs[i][1], "result.")}
    IN  IF hits # {} THEN outputs[CHOOSE i \in hits : \A j \in hits : i <= j][2]
        ELSE IF Len(outputs) > 0 THEN outputs[Len(outputs)][2]
        ELSE Undef

Subgraphs == {DOUBLE_SUBGRAPH, DIVIDE_SUBGRAPH, PLAIN_SUBGRAPH}

MapArrays == {Num(5)} \cup {NumArr(xs) : xs \in SeqsOf({0, 1, 2}, 0, MaxMapLen)}

MapCalls ==
    {[NoMap EXCEPT !.type = "Map", !.array = array, !.state = "called"] : array \in MapArrays}
        \cup {[NoMap EXCEPT !.type = "Map", !.array = array, !.hasSubgraph = TRUE,
                             !.subgraph = subgraph, !.state = "called"] :
                  array \in MapArrays, subgraph \in Subgraphs}

\* new GraphEvaluator(modifiedGraph, nodeRegistry) for `element`, about to
\* be asked to evaluate()
Construct(element) ==
    /\ graph' = createSubgraphWithInput(mapNode.subgraph, element)
    /\ nodeValues' = EmptyMap
    /\ inferredTypes' = EmptyMap
    /\ executedNodes' = {}
    /\ tasks' = <<>>
    /\ remaining' = 0
    /\ phase' = "idle"

\* execute(context) up to its first await, its return or its throw
MapExecute ==
    /\ mapNode.type = "Map" /\ mapNode.state = "called"
    /\ IF ~IsArray(mapNode.array)
       THEN /\ mapNode' = [mapNode EXCEPT !.state = "failed",
                                          !.err = "Map node requires an array input"]
            /\ UNCHANGED <<graph, nodeValues, inferredTypes, executedNodes, tasks, remaining,
                           phase>>
       ELSE IF ~mapNode.hasSubgraph \/ Len(mapNode.array.a) = 0
       THEN /\ mapNode' = [mapNode EXCEPT !.state = "done",
                                          !.out = IF mapNode.hasSubgraph THEN Arr(<<>>)
                                                  ELSE mapNode.array]
            /\ UNCHANGED <<graph, nodeValues, inferredTypes, executedNodes, tasks, remaining,
                           phase>>
       ELSE /\ mapNode' = [mapNode EXCEPT !.state = "awaiting", !.index = 1]
            /\ Construct(mapNode.array.a[1])
    /\ UNCHANGED <<previous, definitions, jobs, result, validation, trace>>

\* execute after `await evaluator.evaluate()`, pushing the value in front
MapResume_unshift ==
    /\ mapNode.type = "Map" /\ mapNode.state = "awaiting"
    /\ jobs # <<>> /\ Head(jobs).kind = "caller"
    /\ jobs' = Tail(jobs)
    /\ LET results == <<extractSubgraphOutput(result.outputs)>> \o mapNode.results
       IN  IF ~result.success
           THEN /\ mapNode' = [mapNode EXCEPT
                                  !.state = "failed",
                                  !.err = "Map subgraph evaluation failed: " \o result.error]
                /\ UNCHANGED <<graph, nodeValues, inferredTypes, executedNodes, tasks,
                               remaining, phase>>
           ELSE IF mapNode.index < Len(mapNode.array.a)
           THEN /\ mapNode' = [mapNode EXCEPT !.index = @ + 1, !.results = results]
                /\ Construct(mapNode.array.a[mapNode.index + 1])
           ELSE /\ mapNode' = [mapNode EXCEPT !.state = "done", !.results = results,
                                              !.out = Arr(results)]
                /\ UNCHANGED <<graph, nodeValues, inferredTypes, executedNodes, tasks,
                               remaining, phase>>
    /\ UNCHANGED <<previous, definitions, result, validation, trace>>

\* execute after `await evaluator.evaluate()`: the throw on a failed run, the
\* push, and the next element's evaluator or setOutputValue('out', results)
MapResume ==
    /\ mapNode.type = "Map" /\ mapNode.state = "awaiting"
    /\ jobs # <<>> /\ Head(jobs).kind = "caller"
    /\ jobs' = Tail(jobs)
    /\ LET results == Append(mapNode.results, extractSubgraphOutput(result.outputs))
       IN  IF ~result.success
           THEN /\ mapNode' = [mapNode EXCEPT
                                  !.state = "failed",
                                  !.err = "Map subgraph evaluation failed: " \o result.error]
                /\ UNCHANGED <<graph, nodeValues, inferredTypes, executedNodes, tasks,
                               remaining, phase>>
           ELSE IF mapNode.index < Len(mapNode.array.a)
           THEN /\ mapNode' = [mapNode EXCEPT !.index = @ + 1, !.results = results]
                /\ Construct(mapNode.array.a[mapNode.index + 1])
           ELSE /\ mapNode' = [mapNode EXCEPT !.state = "done", !.results = results,
                                              !.out = Arr(results)]
                /\ UNCHANGED <<graph, nodeValues, inferredTypes, executedNodes, tasks,
                               remaining, phase>>
    /\ UNCHANGED <<previous, definitions, result, validation, trace>>

InitMap ==
    /\ mapNode \in MapCalls
    /\ graph = mapNode.subgraph
    /\ nodeValues = EmptyMap
    /\ inferredTypes = EmptyMap
    /\ executedNodes = {}
    /\ tasks = <<>>
    /\ jobs = <<>>
    /\ remaining = 0
    /\ phase = "none"
    /\ result = NoResult
    /\ previous = NoResult
    /\ definitions = EmptyMap
    /\ validation = NoValidation
    /\ trace = <<>>

NextMap ==
    \/ MapExecute
    \/ Evaluate
    \/ ExecDone
    \/ ChildDone
    \/ PropDone
    \/ AllElem
    \/ EvalResume
    \/ MapResume

SpecMap == InitMap /\ [][NextMap]_vars

(***************************************************************************)
(* FilterNode.execute and ReduceNode.execute, on the same call record.     *)
(***************************************************************************)
MaxReduceLen == 3

\* createReduceSubgraphWithInputs(subgraph, accumulator, element)
createReduceSubgraphWithInputs(subgraph, accumulator, element) ==
    [nodes |-> [i \in 1..Len(subgraph.nodes) |->
                   LET node == subgraph.nodes[i]
                   IN  IF node.id = "accumulator" \/ node.id = "acc"
                       THEN [node EXCEPT !.type = "Value", !.data = ValueData(accumulator)]
                       ELSE IF node.id = "element" \/ node.id = "current"
                       THEN [node EXCEPT !.type = "Value", !.data = ValueData(element)]
                       ELSE node],
     edges |-> subgraph.edges]

FilterSubgraphs == {GREATER_SUBGRAPH, SELF_SUBGRAPH, DIVIDE_SUBGRAPH}

FilterCalls ==
    {[NoMap EXCEPT !.type = "Filter", !.array = array, !.state = "called"] :
        array \in MapArrays}
        \cup {[NoMap EXCEPT !.type = "Filter", !.array = array, !.hasSubgraph = TRUE,
                             !.subgraph = subgraph, !.state = "called"] :
                  array \in MapArrays, subgraph \in FilterSubgraphs}

ReduceSubgraphs == {SUM_SUBGRAPH, QUOTIENT_SUBGRAPH}

ReduceArrays == {Num(5)} \cup {NumArr(xs) : xs \in SeqsOf({0, 1, 2}, 0, MaxReduceLen)}

ReduceInitials == {Undef, Num(0), Num(4)}

ReduceCalls ==
    {[NoMap EXCEPT !.type = "Reduce", !.array = array, !.initial = initial,
                   !.state = "called"] :
        array \in ReduceArrays, initial \in ReduceInitials}
        \cup {[NoMap EXCEPT !.type = "Reduce", !.array = array, !.initial = initial,
                             !.hasSubgraph = TRUE, !.subgraph = subgraph,
                             !.state = "called"] :
                  array \in ReduceArrays, initial \in ReduceInitials,
                  subgraph \in ReduceSubgraphs}

\* FilterNode.execute up to its first await, its return or its throw
FilterExecute ==
    /\ mapNode.type = "Filter" /\ mapNode.state = "called"
    /\ IF ~IsArray(mapNode.array)
       THEN /\ mapNode' = [mapNode EXCEPT !.state = "failed",
                                          !.err = "Filter node requires an array input"]
            /\ UNCHANGED <<graph, nodeValues, inferredTypes, executedNodes, tasks, remaining,
                           phase>>
       ELSE IF ~mapNode.hasSubgraph \/ Len(mapNode.array.a) = 0
       THEN /\ mapNode' = [mapNode EXCEPT !.state = "done",
                                          !.out = IF mapNode.hasSubgraph THEN Arr(<<>>)
                                                  ELSE mapNode.array]
            /\ UNCHANGED <<graph, nodeValues, inferredTypes, executedNodes, tasks, remaining,
                           phase>>
       ELSE /\ mapNode' = [mapNode EXCEPT !.state = "awaiting", !.index = 1]
            /\ Construct(mapNode.array.a[1])
    /\ UNCHANGED <<previous, definitions, jobs, result, validation, trace>>

\* what FilterNode.execute does with a successful run's outputs: push the
\* subgraph's value
Kept_output(results, element, shouldInclude) ==
    IF Truthy(shouldInclude) THEN Append(results, shouldInclude) ELSE results

\* if (shouldInclude) results.push(element)
Kept(results, element, shouldInclude) ==
    IF Truthy(shouldInclude) THEN Append(results, element) ELSE results

\* FilterNode.execute after `await evaluator.evaluate()`: the throw on a
\* failed run, the conditional push, and the next element's evaluator or
\* setOutputValue('out', results)
FilterResume ==
    /\ mapNode.type = "Filter" /\ mapNode.state = "awaiting"
    /\ jobs # <<>> /\ Head(jobs).kind = "caller"
    /\ jobs' = Tail(jobs)
    /\ LET results == Kept(mapNode.results, mapNode.array.a[mapNode.index],
                           extractSubgraphOutput(result.outputs))
       IN  IF ~result.success
           THEN /\ mapNode' = [mapNode EXCEPT
                                  !.state = "failed",
                                  !.err = "Filter subgraph evaluation failed: "
                                              \o result.error]
                /\ UNCHANGED <<graph, nodeValues, inferredTypes, executedNodes, tasks,
                               remaining, phase>>
           ELSE IF mapNode.index < Len(mapNode.array.a)
           THEN /\ mapNode' = [mapNode EXCEPT !.index = @ + 1, !.results = results]
                /\ Construct(mapNode.array.a[mapNode.index + 1])
           ELSE /\ mapNode' = [mapNode EXCEPT !.state = "done", !.results = results,
                                              !.out = Arr(results)]
                /\ UNCHANGED <<graph, nodeValues, inferredTypes, executedNodes, tasks,
                               remaining, phase>>
    /\ UNCHANGED <<previous, definitions, result, validation, trace>>

\* new GraphEvaluator(modifiedGraph, nodeRegistry) for one step of Reduce,
\* about to be asked to evaluate()
ConstructStep(accumulator, element) ==
    /\ graph' = createReduceSubgraphWithInputs(mapNode.subgraph, accumulator, element)
    /\ nodeValues' = EmptyMap
    /\ inferredTypes' = EmptyMap
    /\ executedNodes' = {}
    /\ tasks' = <<>>
    /\ remaining' = 0
    /\ phase' = "idle"

\* startIndex of a loop that always skips the array's first element
startIndex_one(initialValue) == 2

\* const startIndex = initialValue !== undefined ? 0 : 1, counted from 1
startIndex(initialValue) == IF initialValue # Undef THEN 1 ELSE 2

\* ReduceNode.execute up to its first await, its return or its throw
ReduceExecute ==
    /\ mapNode.type = "Reduce" /\ mapNode.state = "called"
    /\ IF ~IsArray(mapNode.array)
       THEN /\ mapNode' = [mapNode EXCEPT !.state = "failed",
                                          !.err = "Reduce node requires an array input"]
            /\ UNCHANGED <<graph, nodeValues, inferredTypes, executedNodes, tasks, remaining,
                           phase>>
       ELSE IF ~mapNode.hasSubgraph
       THEN /\ mapNode' = [mapNode EXCEPT !.state = "done", !.out = mapNode.initial]
            /\ UNCHANGED <<graph, nodeValues, inferredTypes, executedNodes, tasks, remaining,
                           phase>>
       ELSE LET accumulator == IF mapNode.initial # Undef THEN mapNode.initial
                               ELSE IF Len(mapNode.array.a) > 0 THEN mapNode.array.a[1]
                               ELSE Undef
                start == startIndex(mapNode.initial)
            IN  IF start > Len(mapNode.array.a)
                THEN /\ mapNode' = [mapNode EXCEPT !.state = "done",
                                                   !.accumulator = accumulator,
                                                   !.out = accumulator]
                     /\ UNCHANGED <<graph, nodeValues, inferredTypes, executedNodes, tasks,
                                    remaining, phase>>
                ELSE /\ mapNode' = [mapNode EXCEPT !.state = "awaiting", !.index = start,
                                                   !.accumulator = accumulator]
                     /\ ConstructStep(accumulator, mapNode.array.a[start])
    /\ UNCHANGED <<previous, definitions, jobs, result, validation, trace>>

\* ReduceNode.execute after `await evaluator.evaluate()`: the throw on a
\* failed run, the new accumulator, and the next step's evaluator or
\* setOutputValue('out', accumulator)
ReduceResume ==
    /\ mapNode.type = "Reduce" /\ mapNode.state = "awaiting"
    /\ jobs # <<>> /\ Head(jobs).kind = "caller"
    /\ jobs' = Tail(jobs)
    /\ LET accumulator == extractSubgraphOutput(result.outputs)
       IN  IF ~result.success
           THEN /\ mapNode' = [mapNode EXCEPT
                                  !.state = "failed",
                                  !.err = "Reduce subgraph evaluation failed: "
                                              \o result.error]
                /\ UNCHANGED <<graph, nodeValues, inferredTypes, executedNodes, tasks,
                               remaining, phase>>
           ELSE IF mapNode.index < Len(mapNode.array.a)
           THEN /\ mapNode' = [mapNode EXCEPT !.index = @ + 1,
                                              !.accumulator = accumulator,
                                              !.results = Append(@, accumulator)]
                /\ ConstructStep(accumulator, mapNode.array.a[mapNode.index + 1])
           ELSE /\ mapNode' = [mapNode EXCEPT !.state = "done",
                                              !.accumulator = accumulator,
                                              !.results = Append(@, accumulator),
                                              !.out = accumulator]
                /\ UNCHANGED <<graph, nodeValues, inferredTypes, executedNodes, tasks,
                               remaining, phase>>
    /\ UNCHANGED <<previous, definitions, result, validation, trace>>

\* the map/filter/reduce sample graph on the array `numbers`, with or without
\* the Value node that feeds reduce_sum.initial
MapFilterReduceGraph(numbers, withInitial) ==
    [nodes |-> <<GraphNode("numbers", "Value", ValueData(numbers)),
                 GraphNode("map_double", "Map", SubgraphData(DOUBLE_SUBGRAPH)),
                 GraphNode("filter_gt5", "Filter", SubgraphData(GREATER_SUBGRAPH)),
                 GraphNode("reduce_sum", "Reduce", SubgraphData(SUM_SUBGRAPH))>>
                   \o (IF withInitial
                       THEN <<GraphNode("initial_value", "Value", ValueData(Num(0)))>>
                       ELSE <<>>)
                   \o <<GraphNode("output", "Output",
                                  OutputsData(<<"mapped", "filtered", "sum">>))>>,
     edges |-> <<GraphEdge("numbers", "out", "map_double", "array"),
                 GraphEdge("map_double", "out", "output", "mapped"),
                 GraphEdge("map_double", "out", "filter_gt5", "array"),
                 GraphEdge("filter_gt5", "out", "output", "filtered"),
                 GraphEdge("filter_gt5", "out", "reduce_sum", "array")>>
                   \o (IF withInitial
                       THEN <<GraphEdge("initial_value", "out", "reduce_sum", "initial")>>
                       ELSE <<>>)
                   \o <<GraphEdge("reduce_sum", "out", "output", "sum")>>]

\* a Value feeding one array node that feeds an Output
ArrayNodeGraph(value, type, data) ==
    [nodes |-> <<GraphNode("numbers", "Value", ValueData(value)),
                 GraphNode("each", type, data),
                 GraphNode("output", "Output", OutputsData(<<"result">>))>>,
     edges |-> <<GraphEdge("numbers", "out", "each", "array"),
                 GraphEdge("each", "out", "output", "result")>>]

ArrayNodes ==
    {<<"Map", NoData>>, <<"Map", SubgraphData(DOUBLE_SUBGRAPH)>>,
     <<"Map", SubgraphData(DIVIDE_SUBGRAPH)>>, <<"Filter", SubgraphData(GREATER_SUBGRAPH)>>,
     <<"Filter", SubgraphData(DIVIDE_SUBGRAPH)>>, <<"Reduce", SubgraphData(SUM_SUBGRAPH)>>,
     <<"Reduce", SubgraphData(QUOTIENT_SUBGRAPH)>>}

ArrayGraphs ==
    {MapFilterReduceGraph(NumArr(xs), withInitial) :
        xs \in SeqsOf({1, 2, 3}, 0, MaxMapLen), withInitial \in BOOLEAN}
        \cup {ArrayNodeGraph(value, node[1], node[2]) :
                  value \in {Num(5), NumArr(<<>>), NumArr(<<2, 1>>), NumArr(<<1, 0, 2>>)},
                  node \in ArrayNodes}

\* either one call of an array node's execute, or evaluate() about to be
\* called on a graph that holds array nodes
InitArray ==
    /\ \/ /\ mapNode \in MapCalls \cup FilterCalls \cup ReduceCalls
          /\ graph = mapNode.subgraph
          /\ phase = "none"
       \/ /\ mapNode = NoMap
          /\ graph \in ArrayGraphs
          /\ phase = "idle"
    /\ nodeValues = EmptyMap
    /\ inferredTypes = EmptyMap
    /\ executedNodes = {}
    /\ tasks = <<>>
    /\ jobs = <<>>
    /\ remaining = 0
    /\ result = NoResult
    /\ previous = NoResult
    /\ definitions = EmptyMap
    /\ validation = NoValidation
    /\ trace = <<>>

NextArray ==
    \/ MapExecute
    \/ FilterExecute
    \/ ReduceExecute
    \/ Evaluate
    \/ ExecDone
    \/ ChildDone
    \/ PropDone
    \/ AllElem
    \/ EvalResume
    \/ MapResume
    \/ FilterResume
    \/ ReduceResume
    \/ NestedRound
    \/ Caller

SpecArray == InitArray /\ [][NextArray]_vars



(***************************************************************************)
Finished == phase = "returned" /\ jobs = <<>>

Events(ev) == {i \in 1..Len(trace) : trace[i].ev = ev}

Executions(id) == {i \in Events("exec") : trace[i].node = id}

HasIncomingEdge(id) == \E e \in 1..Len(graph.edges) : graph.edges[e].to.node = id

\* the port keys staged in a value map
StagedKeys(m) ==
    {key \in MapKeys(m) : \E e \in 1..Len(graph.edges) : key = InKey(graph.edges[e].to.port)}

\* C1: during one evaluate() run, the execute of each node is invoked at most
\* once.
C1_ExecuteAtMostOnce == \A id \in NodeIds : Cardinality(Executions(id)) <= 1

\* C2: whenever execute is invoked on a node that has an incoming edge, a
\* value has been staged into at least one of the node's input slots; a node
\* executed with nothing staged has no incoming edge.
C2_InputBeforeExecute ==
    \A i \in Events("exec") :
        HasIncomingEdge(trace[i].node) <=> StagedKeys(trace[i].m) # {}

C2_Witness ==
    /\ Finished
    /\ \E i \in Events("exec") : HasIncomingEdge(trace[i].node) /\ StagedKeys(trace[i].m) # {}
    /\ \E i \in Events("exec") : ~HasIncomingEdge(trace[i].node)

\* the numbers of the Value nodes of the graph, summed
RECURSIVE ValueSum(_)
ValueSum(i) ==
    IF i > Len(graph.nodes) THEN 0
    ELSE (IF graph.nodes[i].type = "Value" THEN graph.nodes[i].data.value.n ELSE 0)
         + ValueSum(i + 1)

IsFanIn == graph \in FanInGraphs \cup {SAMPLE_GRAPH}

\* C3: when k start Value nodes feed in0..in(k-1) of one Add node whose out
\* feeds an Output node, evaluate() succeeds and the value recorded at the
\* Output node is the sum of all k values.
C3_FanInSum ==
    (IsFanIn /\ phase = "returned") =>
        /\ result.success
        /\ MapGet(result.outputs, "output.result", Undef) = Num(ValueSum(1))
        /\ MapGet(NodeMap(nodeValues, "output"), "result", Undef) = Num(ValueSum(1))

C3_Witness ==
    /\ IsFanIn /\ Finished
    /\ Cardinality({i \in 1..Len(graph.nodes) : graph.nodes[i].type = "Value"}) = MaxFanIn
    /\ result.success
    /\ \E i \in Executions("add") : Cardinality(StagedKeys(trace[i].m)) = 1

\* C4: evaluating the array-operations graph returns success:true with the
\* documented values of added, multiplied, comparison, filtered_true and
\* filtered_false at the Output node.
C4_ArrayPipeline ==
    (graph = ARRAY_OPERATIONS_GRAPH /\ phase = "returned") =>
        /\ result.success
        /\ MapGet(result.outputs, "output.added", Undef) = NumArr(<<11, 22, 33, 44, 55>>)
        /\ MapGet(result.outputs, "output.multiplied", Undef)
              = NumArr(<<55, 110, 165, 220, 275>>)
        /\ MapGet(result.outputs, "output.comparison", Undef)
              = BoolArr(<<FALSE, FALSE, TRUE, TRUE, TRUE>>)
        /\ MapGet(result.outputs, "output.filtered_true", Undef) = NumArr(<<165, 220, 275>>)
        /\ MapGet(result.outputs, "output.filtered_false", Undef) = NumArr(<<55, 110>>)

\* the events that threw
Thrown == {i \in 1..Len(trace) : trace[i].err # ""}

\* evaluate() returns success:false with the message of an error that was
\* raised exactly when some error was raised
ErrorsBecomeFailure ==
    Finished =>
        /\ result.success <=> Thrown = {}
        /\ ~result.success => \E i \in Thrown : result.error = trace[i].err
        /\ ~result.success => result.outputs = EmptyMap

\* no execute is invoked on a node whose execute or registry lookup has thrown
NothingRetried ==
    \A i \in Thrown \cap (Events("exec") \cup Events("lookup")) :
        \A j \in Events("exec") : j > i => trace[j].node # trace[i].node

\* C5: evaluate() never throws to its caller: an error raised by an execute,
\* by the registry lookup or by a type check of the propagation, at any depth,
\* yields {success:false, error: message}, and no node is retried.
C5_ErrorsCaughtNoRetry == ErrorsBecomeFailure /\ NothingRetried

Mismatches == Events("mismatchOut") \cup Events("mismatchIn")

\* the declared type of the source port and of the target port of edge e,
\* "" where the port is not declared
DeclaredOut(e) ==
    LET source == graph.nodes[FindNode(graph.edges[e].from.node)]
    IN  IF Registered(source.type)
        THEN PortType(Registry[source.type].outputs, graph.edges[e].from.port) ELSE ""

DeclaredIn(e) ==
    LET target == graph.nodes[FindNode(graph.edges[e].to.node)]
    IN  IF Registered(target.type)
        THEN PortType(Registry[target.type].inputs, graph.edges[e].to.port) ELSE ""

Fits(v, type) == type = "" \/ IsUndef(v) \/ isTypeCompatible(v, type)

\* C6: a produced value that does not fit the declared type of the source
\* port or of the target port of an edge is never staged on that edge; the
\* propagation that met it stages and triggers nothing afterwards, and
\* evaluate() returns success:false.
C6_MismatchAborts ==
    /\ \A i \in Events("stage") :
          /\ Fits(trace[i].m[1][2], DeclaredOut(trace[i].edge))
          /\ Fits(trace[i].m[1][2], DeclaredIn(trace[i].edge))
    /\ \A i \in Mismatches : \A j \in 1..Len(trace) :
          (j > i /\ trace[j].task = trace[i].task)
              => trace[j].ev \notin {"stage", "exec", "skip", "lookup"}
    /\ (phase = "returned" /\ Mismatches # {}) => ~result.success
    /\ (phase = "returned" /\ result.success) => Mismatches = {}

C6_Witness ==
    /\ Finished /\ ~result.success
    /\ \E i \in Events("mismatchIn") : \E j \in Events("stage") : j < i

C6_WitnessOut ==
    /\ Finished /\ ~result.success
    /\ \E i \in Events("mismatchOut") : \E j \in Events("stage") : j < i

\* the Divide nodes into whose in1 a value that coerces to 0 was staged
ZeroDivided ==
    {trace[i].node : i \in {j \in Events("stage") :
        /\ graph.nodes[FindNode(trace[j].node)].type = "Divide"
        /\ graph.edges[trace[j].edge].to.port = "in1"
        /\ ~IsArray(trace[j].m[1][2])
        /\ NumberOrZero(trace[j].m[1][2]).n = 0}}

\* C7: when an edge into in1 of a Divide node carries a value that coerces to
\* 0, evaluate() returns success:false with the division-by-zero error and the
\* node never records an out value.
C7_DivideByZeroFails ==
    (Finished /\ ZeroDivided # {}) =>
        /\ ~result.success
        /\ result.error = DivisionByZero
        /\ \A id \in ZeroDivided : ~MapHas(NodeMap(nodeValues, id), "out")

UnknownNodes == {trace[i].node : i \in Events("lookup")}

NeverPropagated(id) ==
    /\ \A i \in Events("marked") : trace[i].node # id
    /\ \A i \in Events("stage") : graph.edges[trace[i].edge].from.node # id
    /\ id \notin executedNodes

UnknownTyped == {i \in 1..Len(graph.nodes) : ~Registered(graph.nodes[i].type)}

MissingSources == {e \in 1..Len(graph.edges) : graph.edges[e].from.node \notin NodeIds}

MissingTargets == {e \in 1..Len(graph.edges) : graph.edges[e].to.node \notin NodeIds}

StructurallyValid == UnknownTyped = {} /\ MissingSources = {} /\ MissingTargets = {}

HasEdge(x, y) ==
    \E e \in 1..Len(graph.edges) :
        graph.edges[e].from.node = x /\ graph.edges[e].to.node = y

\* a closed walk of at least one edge
DirectedCycle ==
    \E k \in 1..Len(graph.nodes) : \E p \in [1..(k + 1) -> NodeIds] :
        p[1] = p[k + 1] /\ \A i \in 1..k : HasEdge(p[i], p[i + 1])

ErrorsOf(kind) == {i \in 1..Len(validation.errors) : validation.errors[i].kind = kind}

IsCyclePath(path) ==
    /\ Len(path) >= 2
    /\ path[1] = path[Len(path)]
    /\ \A i \in 1..(Len(path) - 1) : HasEdge(path[i], path[i + 1])

\* C9: for a structurally valid graph, validate() reports a cycle error, and
\* success:false, exactly when the graph has a directed cycle (self-loops
\* included), and the reported path starts and ends at the same node with
\* every consecutive pair joined by an edge.
C9_CycleDetection ==
    (validation.done /\ StructurallyValid) =>
        /\ ErrorsOf("Graph contains cycles") # {} <=> DirectedCycle
        /\ DirectedCycle => ~validation.success
        /\ \A i \in ErrorsOf("Graph contains cycles") : IsCyclePath(validation.errors[i].args)

C9_Witness ==
    /\ validation.done /\ StructurallyValid
    /\ \E i \in ErrorsOf("Graph contains cycles") : Len(validation.errors[i].args) = 4

\* C10: when some node has an unregistered type or some edge endpoint names no
\* node, validate() reports one error per such node and per such endpoint and
\* returns success:false with no other error, no warning and no inferred type.
C10_StructuralErrorsOnly ==
    (validation.done /\ ~StructurallyValid) =>
        /\ ~validation.success
        /\ \A i \in UnknownTyped :
              Cardinality({j \in ErrorsOf("Node has unknown type") :
                              validation.errors[j].args
                                  = <<graph.nodes[i].id, graph.nodes[i].type>>}) = 1
        /\ Cardinality(ErrorsOf("Node has unknown type")) = Cardinality(UnknownTyped)
        /\ Cardinality(ErrorsOf("Edge references non-existent source node"))
              = Cardinality(MissingSources)
        /\ Cardinality(ErrorsOf("Edge references non-existent target node"))
              = Cardinality(MissingTargets)
        /\ \A e \in MissingSources : \E j \in ErrorsOf("Edge references non-existent source node") :
              validation.errors[j].args = <<graph.edges[e].from.node>>
        /\ \A e \in MissingTargets : \E j \in ErrorsOf("Edge references non-existent target node") :
              validation.errors[j].args = <<graph.edges[e].to.node>>
        /\ Len(validation.errors)
              = Cardinality(UnknownTyped) + Cardinality(MissingSources)
                    + Cardinality(MissingTargets)
        /\ validation.warnings = <<>>
        /\ validation.inferredTypes = EmptyMap

C10_Witness ==
    /\ validation.done
    /\ Cardinality(UnknownTyped) = 2 /\ MissingSources # {} /\ MissingTargets # {}
    /\ DirectedCycle
    /\ Len(validation.errors) = 4

\* the nodes some walk from a node without incoming edge arrives at
ReachableFromStart ==
    {x \in NodeIds :
        \E k \in 0..(Len(graph.nodes) - 1) : \E p \in [1..(k + 1) -> NodeIds] :
            /\ ~HasIncomingEdge(p[1])
            /\ p[k + 1] = x
            /\ \A i \in 1..k : HasEdge(p[i], p[i + 1])}

Unreached == SelectSeq(graph.nodes, LAMBDA node : node.id \notin ReachableFromStart)

\* C12: in every validate() result success is true exactly when errors is
\* empty; unreachability is never reported as an error, every warning names a
\* node not reachable from the nodes without incoming edge, and where the
\* reachability step runs (the structural checks passed) each such node gets
\* exactly one warning, in node order.
C12_SuccessIffNoErrors ==
    validation.done =>
        /\ validation.success <=> validation.errors = <<>>
        /\ ErrorsOf("Node is not reachable from any input") = {}
        /\ \A i \in 1..Len(validation.warnings) :
              /\ validation.warnings[i].kind = "Node is not reachable from any input"
              /\ validation.warnings[i].args[1] \notin ReachableFromStart
        /\ StructurallyValid =>
              validation.warnings
                  = [i \in 1..Len(Unreached) |->
                        Message("Node is not reachable from any input",
                                <<Unreached[i].id, Unreached[i].type>>)]

C12_Witness ==
    /\ validation.done /\ StructurallyValid
    /\ Len(validation.warnings) = 2
    /\ Len(validation.errors) = 1
    /\ ReachableFromStart # {}

RECURSIVE Closure(_)
Closure(S) ==
    LET T == S \cup {y \in NodeIds : \E x \in S : HasEdge(x, y)}
    IN  IF T = S THEN S ELSE Closure(T)

\* no node is reached from its own successors
Acyclic == \A x \in NodeIds : x \notin Closure({y \in NodeIds : HasEdge(x, y)})

CallsOf(t) == {i \in 1..Len(trace) : trace[i].type = t}

RegisteredTypes == {trace[i].type : i \in 1..Len(trace)}

\* the definition the latest register call with type t passed
LastRegistered(t) == trace[CHOOSE i \in CallsOf(t) : \A j \in CallsOf(t) : j <= i]

Holds(defs, d) == \E i \in 1..Len(defs) : defs[i] = d

\* C14: after any sequence of register calls, get(t) is the definition most
\* recently registered under t and undefined when there is none, getAll()
\* holds exactly one definition per registered type, and getByCategory(c)
\* holds exactly the definitions of getAll() whose category is c.
C14_RegistryLastWins ==
    /\ \A t \in {"Add", "If", "Switch"} :
          get(definitions, t) = IF CallsOf(t) = {} THEN Undefined ELSE LastRegistered(t)
    /\ Len(getAll(definitions)) = Cardinality(RegisteredTypes)
    /\ \A t \in RegisteredTypes : Holds(getAll(definitions), LastRegistered(t))
    /\ \A c \in {"math", "control", "array"} :
          LET found == getByCategory(definitions, c)
          IN  /\ \A d \in Definitions :
                    Holds(found, d) <=> (Holds(getAll(definitions), d) /\ d.category = c)
              /\ Len(found) = Cardinality({t \in RegisteredTypes : LastRegistered(t).category = c})

C14_Witness ==
    /\ Len(trace) = 3
    /\ trace[1].type = trace[3].type /\ trace[1] # trace[3] /\ trace[2].type # trace[1].type
    /\ trace[1].category # trace[3].category
    /\ get(definitions, trace[1].type) = trace[3]

(***************************************************************************)
(* Properties of the node definitions                                      *)
(***************************************************************************)
\* the node the execute was called on, and its value map
Node == graph.nodes[1]

Values == NodeMap(nodeValues, Node.id)

\* the values staged at the input ports `names`, undefined when not staged
StagedAt(names) == [i \in 1..Len(names) |-> MapGet(Values, "input." \o names[i], Undef)]

\* in0, in1, ... up to the first port nothing is staged at
Collected ==
    LET all == StagedAt(<<"in0", "in1", "in2">>)
        n   == CHOOSE k \in 0..3 : /\ \A i \in 1..k : ~IsUndef(all[i])
                                  /\ (k < 3 => IsUndef(all[k + 1]))
    IN  SubSeq(all, 1, n)

\* the length an input has as an operand: a scalar counts as one element
Extent(v) == IF IsArray(v) THEN Len(v.a) ELSE 1

\* the addend input v gives at index i (from 1): its element i, its last
\* element past its end, the scalar itself; nothing (0) from an empty array
Addend(v, i) ==
    IF ~IsArray(v) THEN NumberOrZero(v).n
    ELSE IF Len(v.a) = 0 THEN 0
    ELSE NumberOrZero(v.a[IF i <= Len(v.a) THEN i ELSE Len(v.a)]).n

RECURSIVE Total(_, _, _)
Total(vs, i, j) == IF j = 0 THEN 0 ELSE Total(vs, i, j - 1) + Addend(vs[j], i)

Longest(vs) == CHOOSE n \in {Extent(vs[j]) : j \in 1..Len(vs)} :
                  \A j \in 1..Len(vs) : Extent(vs[j]) <= n

\* C15: when a collected input of Add is an array, out is an array as long
\* as the longest input (a scalar counting as one element) whose element i
\* is the sum of every input's element i, an input shorter than i giving
\* its last element; Add([1,2,3,4,5],[10,20]) = [11,22,23,24,25].
C15_AddBroadcast ==
    (phase = "executed" /\ Node.type = "Add"
        /\ \E j \in 1..Len(Collected) : IsArray(Collected[j])) =>
        LET out == MapGet(Values, "out", Undef)
        IN  /\ result.error = ""
            /\ IsArray(out)
            /\ Len(out.a) = Longest(Collected)
            /\ \A i \in 1..Len(out.a) : out.a[i] = Num(Total(Collected, i, Len(Collected)))
            /\ Collected = <<NumArr(<<1, 2, 3, 4, 5>>), NumArr(<<10, 20>>)>>
                  => out = NumArr(<<11, 22, 23, 24, 25>>)

C15_Witness ==
    /\ phase = "executed" /\ Node.type = "Add"
    /\ Collected = <<NumArr(<<1, 2, 3, 4, 5>>), NumArr(<<10, 20>>)>>
    /\ MapGet(Values, "out", Undef) = NumArr(<<11, 22, 23, 24, 25>>)

\* the elements of arr at the indices i..Len(cond) where cond is truthy (want)
\* or falsy (~want), in increasing index; an index past arr's end gives none
RECURSIVE Routed(_, _, _, _)
Routed(cond, arr, want, i) ==
    IF i > Len(cond) THEN <<>>
    ELSE (IF Truthy(cond[i]) = want /\ i <= Len(arr) THEN <<arr[i]>> ELSE <<>>)
             \o Routed(cond, arr, want, i + 1)

\* Array.isArray(v) ? v : [v]
Wrapped(v) == IF IsArray(v) THEN v.a ELSE <<v>>

\* C17: when If's condition is an array, trueOut holds trueArray[i] for the
\* i, in increasing order, where condition[i] is truthy and i is within
\* trueArray, falseOut holds falseArray[i] where condition[i] is falsy and i
\* is within falseArray, and out equals trueOut.
C17_IfFilters ==
    LET in == StagedAt(<<"condition", "true", "false">>)
    IN  (phase = "executed" /\ Node.type = "If" /\ IsArray(in[1])) =>
            /\ result.error = ""
            /\ MapGet(Values, "trueOut", Undef) = Arr(Routed(in[1].a, Wrapped(in[2]), TRUE, 1))
            /\ MapGet(Values, "falseOut", Undef) = Arr(Routed(in[1].a, Wrapped(in[3]), FALSE, 1))
            /\ MapGet(Values, "out", Undef) = MapGet(Values, "trueOut", Undef)

C17_Witness ==
    LET in == StagedAt(<<"condition", "true", "false">>)
    IN  /\ phase = "executed" /\ Node.type = "If"
        /\ in[1] = Arr(<<Bool(FALSE), Bool(TRUE), Bool(TRUE)>>)
        /\ in[2] = NumArr(<<1, 2>>) /\ in[3] = NumArr(<<11, 12>>)
        /\ MapGet(Values, "trueOut", Undef) = NumArr(<<2>>)
        /\ MapGet(Values, "falseOut", Undef) = NumArr(<<11>>)

\* the ports the execute wrote: the keys of the value map that are no inputs
Written == MapKeys(Values) \ {"input.value"}

\* C18: Switch writes its input value, unchanged, to one port: the port named
\* by the case whose key equals String(value), and 'default' when no case
\* key does ('option2' with {option1: case1, option2: case2} goes to case2).
C18_SwitchRoutes ==
    LET value    == StagedAt(<<"value">>)[1]
        cases    == IF "cases" \in Node.data.keys THEN Node.data.cases ELSE <<>>
        matching == {i \in 1..Len(cases) : cases[i][1] = ToStr(value)}
    IN  (phase = "executed" /\ Node.type = "Switch") =>
            /\ result.error = ""
            /\ Cardinality(Written) = 1
            /\ \A port \in Written : MapGet(Values, port, Num(-1)) = value
            /\ \A i \in matching : Written = {cases[i][2]}
            /\ matching = {} => Written = {"default"}
            /\ (value = Str("option2")
                  /\ cases = << <<"option1", "case1">>, <<"option2", "case2">> >>)
                  => Written = {"case2"}

C18_Witness ==
    /\ phase = "executed" /\ Node.type = "Switch"
    /\ StagedAt(<<"value">>)[1] = Str("option2")
    /\ Node.data.cases = << <<"option1", "case1">>, <<"option2", "case2">> >>
    /\ Written = {"case2"}
    /\ MapGet(Values, "case2", Undef) = Str("option2")

(***************************************************************************)
(* Properties of evaluate() on control nodes                               *)
(***************************************************************************)
NodesOfType(type) == {i \in 1..Len(graph.nodes) : graph.nodes[i].type = type}

\* C16: a Compare node configured with an operator outside ==, ===, !=, !==,
\* >, >=, <, <= makes evaluate() fail with the unknown-operator error,
\* whatever a and b are, scalar or array, empty arrays included.
C16_UnknownOperatorFails ==
    \A i \in NodesOfType("Compare") :
        LET operator == graph.nodes[i].data.operator
        IN  (phase = "returned" /\ operator \notin Operators) =>
                /\ ~result.success
                /\ result.error = UnknownOperator(operator)

\* the ports of node id that hold a value: the keys of its value map that
\* are not inputs staged by an edge
HeldPorts(id) ==
    MapKeys(NodeMap(nodeValues, id))
        \ {InKey(graph.edges[e].to.port) : e \in 1..Len(graph.edges)}

\* C19: when evaluate() has returned and nothing is left to run, at most one
\* output port of each Switch node holds a value, also when several edges
\* target the node's value port.
C19_SwitchOnePort ==
    Finished => \A i \in NodesOfType("Switch") : Cardinality(HeldPorts(graph.nodes[i].id)) <= 1

(***************************************************************************)
(* Properties of Map                                                       *)
(***************************************************************************)
\* C20: Map with a subgraph writes an array as long as its input whose
\* element i is the value of the subgraph run on input element i alone, in
\* the input's order; every run starts in an evaluator that holds nothing.
C20_MapElementwise ==
    /\ (mapNode.state = "done" /\ mapNode.hasSubgraph) =>
          /\ IsArray(mapNode.out)
          /\ Len(mapNode.out.a) = Len(mapNode.array.a)
          /\ \A i \in 1..Len(mapNode.out.a) :
                mapNode.out.a[i] = Transformed(mapNode.subgraph, mapNode.array.a[i])
    /\ (mapNode.state = "awaiting" /\ phase = "idle") =>
          /\ nodeValues = EmptyMap /\ inferredTypes = EmptyMap /\ executedNodes = {}
          /\ tasks = <<>> /\ jobs = <<>>
    /\ mapNode.state = "awaiting" =>
          \A i \in 1..Len(nodeValues) :
              nodeValues[i][1] \in {"element", "input"} =>
                  MapGet(nodeValues[i][2], "out", Undef) = mapNode.array.a[mapNode.index]

C20_Witness ==
    /\ mapNode.state = "done"
    /\ mapNode.subgraph = DOUBLE_SUBGRAPH
    /\ mapNode.array = NumArr(<<2, 1>>)
    /\ mapNode.out = NumArr(<<4, 2>>)

(***************************************************************************)
(* Properties of Reduce and Filter                                         *)
(***************************************************************************)
\* the accumulator and the index, counted from 1, of the first step
FirstAccumulator == IF mapNode.initial # Undef THEN mapNode.initial ELSE mapNode.array.a[1]

FirstIndex == IF mapNode.initial # Undef THEN 1 ELSE 2

\* GraphNode `id` of the evaluator's graph is a Value node holding `value`
HoldsValue(id, value) ==
    \A i \in 1..Len(graph.nodes) :
        graph.nodes[i].id = id =>
            graph.nodes[i].type = "Value" /\ graph.nodes[i].data.value = value

\* C21: Reduce with a subgraph runs one step per element, one after another:
\* from the initial value at the first element when there is one, from the
\* first element at the second when there is none; each step's extracted
\* output is the next step's accumulator and the last one is out; an empty
\* array without initial yields undefined.
C21_ReduceFolds ==
    (mapNode.type = "Reduce" /\ mapNode.hasSubgraph /\ IsArray(mapNode.array)) =>
        /\ mapNode.state = "awaiting" =>
              /\ mapNode.index = FirstIndex + Len(mapNode.results)
              /\ mapNode.index <= Len(mapNode.array.a)
              /\ mapNode.accumulator = IF mapNode.results = <<>> THEN FirstAccumulator
                                       ELSE mapNode.results[Len(mapNode.results)]
              /\ mapNode.accumulator =
                     Folded(mapNode.subgraph, FirstAccumulator,
                            SubSeq(mapNode.array.a, 1, mapNode.index - 1), FirstIndex)
              /\ \A id \in {"accumulator", "acc"} : HoldsValue(id, mapNode.accumulator)
              /\ \A id \in {"element", "current"} :
                    HoldsValue(id, mapNode.array.a[mapNode.index])
              /\ mapNode.out = Undef
        /\ mapNode.state = "done" =>
              /\ Len(mapNode.results) =
                     IF mapNode.initial # Undef THEN Len(mapNode.array.a)
                     ELSE IF Len(mapNode.array.a) = 0 THEN 0
                     ELSE Len(mapNode.array.a) - 1
              /\ mapNode.out = IF mapNode.results # <<>>
                               THEN mapNode.results[Len(mapNode.results)]
                               ELSE IF mapNode.initial # Undef THEN mapNode.initial
                               ELSE IF Len(mapNode.array.a) > 0 THEN mapNode.array.a[1]
                               ELSE Undef
              /\ Len(mapNode.array.a) > 0 \/ mapNode.initial # Undef =>
                    mapNode.out = Folded(mapNode.subgraph, FirstAccumulator,
                                         mapNode.array.a, FirstIndex)

C21_Witness ==
    /\ mapNode.type = "Reduce" /\ mapNode.state = "done"
    /\ mapNode.subgraph = QUOTIENT_SUBGRAPH
    /\ mapNode.initial = Undef
    /\ mapNode.array = NumArr(<<1, 2, 2>>)
    /\ mapNode.results = <<Frac(1, 2), Frac(1, 4)>>
    /\ mapNode.out = Frac(1, 4)

\* C24: Filter with a subgraph writes the source elements whose subgraph run
\* extracted a truthy value, in source order: the elements themselves, not
\* what the subgraph produced.
C24_FilterSubsequence ==
    (mapNode.type = "Filter" /\ mapNode.hasSubgraph /\ IsArray(mapNode.array)) =>
        /\ mapNode.state = "awaiting" =>
              /\ mapNode.results =
                     Chosen(mapNode.subgraph, SubSeq(mapNode.array.a, 1, mapNode.index - 1))
              /\ mapNode.out = Undef
        /\ mapNode.state = "done" =>
              /\ IsArray(mapNode.out)
              /\ mapNode.out.a = Chosen(mapNode.subgraph, mapNode.array.a)

C24_Witness ==
    /\ mapNode.type = "Filter" /\ mapNode.state = "done"
    /\ mapNode.subgraph = GREATER_SUBGRAPH
    /\ mapNode.array = NumArr(<<2, 1>>)
    /\ mapNode.out = NumArr(<<2>>)

\* the value map and the data of the node whose execute mapNode is
CallMap ==
    << <<InKey("array"), mapNode.array>> >>
        \o (IF mapNode.initial # Undef THEN << <<InKey("initial"), mapNode.initial>> >>
            ELSE <<>>)

CallData == IF mapNode.hasSubgraph THEN SubgraphData(mapNode.subgraph) ELSE NoData

NodeNamed(id) == graph.nodes[FindNode(id)]

\* the executions of array nodes, in an evaluate(), whose subgraph run failed
FailedRuns ==
    {i \in Events("exec") :
        /\ NodeNamed(trace[i].node).type \in AsyncTypes
        /\ Includes(ExecuteOutcome(NodeNamed(trace[i].node).type, trace[i].m,
                                   NodeNamed(trace[i].node).data).err,
                    "subgraph evaluation failed")}

\* what the execute of a Map, Filter or Reduce call throws when a run fails
Rethrown(type, error) == type \o " subgraph evaluation failed: " \o error

C28_ReduceHasBothInputs ==
    (mapNode = NoMap /\ Finished /\ FindNode("initial_value") # 0) =>
        /\ result.success
        /\ \A i \in Executions("reduce_sum") :
              /\ IsArray(getInputValue(trace[i].m, "array"))
              /\ getInputValue(trace[i].m, "initial") # Undef

(***************************************************************************)
(* Properties of the order of propagation                                  *)
(***************************************************************************)
\* the task made by the execution recorded at trace[i]: tasks are numbered
\* in the order of the executions that returned
TaskOf(i) == Cardinality({j \in Events("exec") : j <= i /\ trace[j].err = ""})

\* task x is task c or was called, directly or not, by c's propagateOutputs
RECURSIVE IsUnder(_, _)
IsUnder(x, c) ==
    /\ x > 0
    /\ \/ x = c
       \/ IsUnder(tasks[x].parent, c)

\* the pairs <<i, j>> of stagings made by one propagateOutputs call, i before
\* j, where the staging at i made executeNode execute the target
Cascades ==
    {p \in Events("stage") \X Events("stage") :
        /\ p[1] < p[2]
        /\ trace[p[1]].task = trace[p[2]].task
        /\ trace[p[1] + 1].ev = "exec"
        /\ trace[p[1] + 1].err = ""}

\* C23: propagation is depth first: when a propagateOutputs call stages the
\* value of a later edge, the execution it triggered through an earlier edge
\* and everything that execution triggered downstream is over: none of those
\* calls does anything afterwards and none has a continuation queued.
C23_DepthFirst ==
    \A p \in Cascades :
        LET c == TaskOf(p[1] + 1)
        IN  /\ \A k \in p[2]..Len(trace) : ~IsUnder(trace[k].task, c)
            /\ \A q \in 1..Len(jobs) :
                  jobs[q].kind \in {"execDone", "childDone", "propDone"} =>
                      ~IsUnder(jobs[q].task, c)

C23_Witness ==
    \E p \in Cascades :
        /\ \E x \in 1..Len(tasks) : x # TaskOf(p[1] + 1) /\ IsUnder(x, TaskOf(p[1] + 1))
        /\ Finished

(***************************************************************************)
(* Properties of evaluate() on cyclic graphs                               *)
(***************************************************************************)
\* the stagings into node id
StagingsInto(id) == {i \in Events("stage") : trace[i].node = id}

\* the graph has a cycle along its edges
Cyclic == \E x \in NodeIds : x \in Closure({y \in NodeIds : HasEdge(x, y)})

\* every execution of a node follows a dispatch by evaluate() or a staging
\* into the node, and none comes after the node was marked executed
ExecutionsBounded ==
    \A id \in NodeIds :
        /\ Cardinality(Executions(id)) <=
               Cardinality(StagingsInto(id)) + (IF HasIncomingEdge(id) THEN 0 ELSE 1)
        /\ \A i \in Executions(id) :
              \A j \in Events("marked") : trace[j].node = id => i < j

\* evaluate() on a graph without a start node executes nothing
NothingToStart ==
    (Finished /\ \A id \in NodeIds : HasIncomingEdge(id)) =>
        /\ Events("exec") = {}
        /\ result.success
        /\ result.outputs = EmptyMap

\* C25: evaluate() returns on every graph, cyclic or not; the executions of a
\* node are bounded by the stagings into it and stop once it is marked; a graph
\* in which every node has an incoming edge executes nothing and returns
\* success:true with empty outputs.
C25_Terminates ==
    /\ <>Finished
    /\ [](Quiet \/ Ready)
    /\ []ExecutionsBounded
    /\ []NothingToStart

C25_Witness ==
    /\ Finished
    /\ Cyclic
    /\ \E id \in NodeIds : Cardinality(Executions(id)) = 2
    /\ \E i \in Events("skip") : trace[i].node \in Closure({trace[i].node})

\* the nodes reached along edges from the nodes without an incoming edge
FromStart == Closure({id \in NodeIds : ~HasIncomingEdge(id)})

\* outputs has a key `${id}.${port}` for some port
HasOutputKey(id) ==
    \E i \in 1..Len(result.outputs) :
        /\ Len(result.outputs[i][1]) > Len(id)
        /\ SubSeq(result.outputs[i][1], 1, Len(id) + 1) = id \o "."

\* C26: when evaluate() returns success:true, every node reachable from a
\* start node has been executed and is in executedNodes, and a node that is
\* not reachable from one has never been executed and has no key in outputs.
C26_ReachableExecuted ==
    (Finished /\ result.success) =>
        /\ \A id \in FromStart : Executions(id) # {} /\ id \in executedNodes
        /\ \A id \in NodeIds \ FromStart :
              /\ Executions(id) = {}
              /\ id \notin executedNodes
              /\ ~HasOutputKey(id)

C26_Witness ==
    /\ Finished /\ result.success
    /\ Cardinality(FromStart) = 2
    /\ \E id \in NodeIds \ FromStart : \E x \in FromStart : HasEdge(id, x)
    /\ \E id \in FromStart : HasOutputKey(id)

(***************************************************************************)
(* Properties of the values recorded                                       *)
(***************************************************************************)
MathTypes == {"Add", "Subtract", "Multiply", "Divide"}

\* C27: when evaluate() returns success:true on an acyclic graph of math
\* nodes (with the Value nodes that feed them and Output nodes), the out of
\* every math node that ran is its operator applied to the values its input
\* ports hold at the end.
C27_OutputsFromFinalInputs ==
    (/\ Finished /\ result.success /\ Acyclic
     /\ \A i \in 1..Len(graph.nodes) :
           graph.nodes[i].type \in MathTypes \cup {"Value", "Output"}) =>
        \A i \in 1..Len(graph.nodes) :
            LET node == graph.nodes[i]
                m    == NodeMap(nodeValues, node.id)
            IN  (node.type \in MathTypes /\ Executions(node.id) # {}) =>
                    MapGet(m, "out", Undef) = Execute(node.type, m, node.data).writes[1][2]

\* C29: if validate() returned success:true for the graph, evaluate() on it
\* does not fail with a type-mismatch error at an output or an input port.
C29_ValidatedNeverMismatches ==
    (validation.done /\ validation.success /\ Finished) =>
        /\ ~Includes(result.error, "Type mismatch")
        /\ Events("mismatchOut") \cup Events("mismatchIn") = {}

(***************************************************************************)
(* Properties of edges from ports that were never written                  *)
(***************************************************************************)
\* nodeValues.get(edge.from.node) has no entry for edge.from.port
Unwritten(e) ==
    ~MapHas(NodeMap(nodeValues, graph.edges[e].from.node), graph.edges[e].from.port)

====
